---- MODULE Spec2Model ----
(***************************************************************************)
(* Guitar -> drum trigger pedal (Teensy 4.0 + Audio Shield).               *)
(*                                                                         *)
(* The model follows the full-pipeline sketch                              *)
(* src/grum_pedal_sketch-Claude/grum_pedal_sketch-Claude.ino : one action, *)
(* Loop, is one pass of loop() with everything it calls (updateEmergency,  *)
(* computeSpectralFlux, bandFor, canRetrigger, trigger).                   *)
(*                                                                         *)
(* Units.  The sketch computes in float; the model computes in fixed       *)
(* point and truncates where the float code rounds:                        *)
(*   levels (RMS, peak, envelopes, FFT magnitudes)  1e-6 of full scale     *)
(*   spectral flux and its baseline                 1e-5                   *)
(*   envelope ratio, velocity                       1e-3                   *)
(*   frequencies                                    1e-2 Hz                *)
(*   pitch confidence                               1e-2                   *)
(*   volume                                         1e-2                   *)
(* millis() is a wrapping uint32_t.  TLC's integers are 32-bit signed, so  *)
(* a uint32_t is held as the pair <<high 16 bits, low 16 bits>>.           *)
(***************************************************************************)
EXTENDS Integers, Sequences, FiniteSets, TLC

\* ------------------------------------------------------------ configuration
YIN_CONF          == 80
RETRIGGER_MS      == 90
HYST_PCT          == 6
LOCK_MS           == 150
FAST_ALPHA        == 35
SLOW_ALPHA        == 2
RATIO_DELTA       == 60
MIN_DELTA         == 100
ONSET_MIN_GAP_MS  == 90
MIN_RMS_FOR_PITCH == 600
FLUX_ALPHA        == 15
FLUX_K            == 3
FLUX_MIN_ABS      == 2000
FLUX_DECAY        == 90
PEAK_CLIP_LEVEL   == 980000
RMS_CLIP_LEVEL    == 600000
CLIP_BLOCKS_ARM   == 4
EMERGENCY_HOLD_MS == 600
EMERGENCY_VOL     == 20
VOL_DEFAULT       == 75
\* bins read by computeSpectralFlux, and its divisor
FFT_BINS          == 128
\* slowEnv must exceed 1e-6 for the ratio to be formed
ENV_EPS           == 1
\* mains hum window, strictly between 56 Hz and 64 Hz
HUM_LO            == 5600
HUM_HI            == 6400
\* setup() has slept delay(500) + delay(1000) before the first loop()
BOOT_MS           == 1500

Voices == 0..4

\* Band table: fmin, fmax in 1e-2 Hz, idx the drum voice
bands == <<
  [fmin |->  7400, fmax |->  9200, idx |-> 0],
  [fmin |-> 10000, fmax |-> 12200, idx |-> 1],
  [fmin |-> 13500, fmax |-> 16000, idx |-> 2],
  [fmin |-> 18500, fmax |-> 21000, idx |-> 2],
  [fmin |-> 23500, fmax |-> 26000, idx |-> 3],
  [fmin |-> 31500, fmax |-> 35000, idx |-> 4] >>

\* ------------------------------------------------------------ uint32_t
W16 == 256 * 256

\* the uint32_t holding n, for 0 <= n < 2^31
U32(n) == << n \div W16, n % W16 >>

\* a + k modulo 2^32, for 0 <= k < 2^31
Add32(a, k) ==
  LET lo == a[2] + (k % W16)
      hi == a[1] + (k \div W16) + (lo \div W16)
  IN  << hi % W16, lo % W16 >>

\* a - b modulo 2^32 (unsigned subtraction, as in now - lastOnsetMs)
Sub32(a, b) ==
  LET lo == a[2] - b[2]
      hi == a[1] - b[1] - (IF lo < 0 THEN 1 ELSE 0)
  IN  << hi % W16, lo % W16 >>

\* a > k and a >= k for a uint32_t a and 0 <= k < 2^31
Gt32(a, k) == a[1] > k \div W16 \/ (a[1] = k \div W16 /\ a[2] > k % W16)
Ge32(a, k) == a[1] > k \div W16 \/ (a[1] = k \div W16 /\ a[2] >= k % W16)

\* (int32_t)a < 0 : the top bit is set
Neg32(a) == a[1] >= W16 \div 2

\* ------------------------------------------------------------ state
VARIABLES
  millis,          \* value returned by the latest millis() call
  lastTrig,        \* uint32_t lastTrig[5]
  fastEnv,         \* fast EMA of block RMS
  slowEnv,         \* slow EMA of block RMS
  lastOnsetMs,     \* time of the latest accepted onset
  prevSpec,        \* previous magnitude spectrum
  fluxEMA,         \* static float fluxEMA    (flux baseline)
  fluxVarEMA,      \* static float fluxVarEMA (variance proxy)
  fluxInit,        \* static bool  fluxInit
  clipBlocks,      \* leaky count of clipping cycles
  emergency,       \* emergency flag
  emergencyStart,  \* time the emergency was entered
  userVolume,      \* volume to restore
  volume,          \* volume last commanded with sgtl.volume()
  lockedDrum,      \* locked voice, -1 for none
  lockUntilMs,     \* end of the lock window
  sdCardReady,     \* SD card initialised
  samplesFound,    \* samplesFound[5]
  rt,              \* history: real milliseconds since the first loop(), at the latest millis() call
                   \*          (SetupAt can move the origin)
  onsetRt,         \* history: real time (loop's now) of the latest accepted onset, -1 for none
  fireRt,          \* history: per voice, real time canRetrigger last granted it, -1 for none
  lockRt,          \* history: real time (loop's now) of the latest fire, -1 for none
  armRt,           \* history: real time the emergency was last entered, -1 for none
  fires,           \* history: triggers since startup
  firstFire,       \* history: real time and voice of the first trigger, -1 for none
  attackRt,        \* history: real time of the first pass whose RMS was over the floor, -1 for none
  surplus,         \* history: clipping minus non-clipping passes since clipBlocks was last 0
  cycles,          \* history: passes of loop() made
  probe,           \* history: the latest call of a helper made on its own, with its result
  twin,            \* the detector of a second pedal given the same clock, RMS, FFT and
                   \* pitch readings, which has no peak reading and no clip guard
  out              \* history: what the latest pass of loop() read and did:
                   \*   gap      real time since the previous accepted onset (on an onset)
                   \*   since    real time since voice b last fired, at canRetrigger's clock
                   \*   locked   lockedDrum before the pass
                   \*   lockAge  real time since the latest fire (on an onset)
                   \*   dropAge  real time since the previous accepted onset, when that
                   \*            onset fired nothing (on an onset)
                   \*   emAge    real time since the emergency was last entered

vars == << millis, lastTrig, fastEnv, slowEnv, lastOnsetMs, prevSpec, fluxEMA,
           fluxVarEMA, fluxInit, clipBlocks, emergency, emergencyStart,
           userVolume, volume, lockedDrum, lockUntilMs, sdCardReady,
           samplesFound, rt, onsetRt, fireRt, lockRt, armRt, fires, firstFire,
           attackRt, surplus, cycles, probe, twin, out >>

\* Bins that are non-zero in some frame fed to the model; every other bin of
\* the 128 reads 0 in every frame, so it adds nothing to the flux.
ActiveBins == 3..15

ZeroFrame == [i \in ActiveBins |-> 0]
LoudFrame == [i \in ActiveBins |-> 1000000]
SoftFrame == [i \in ActiveBins |-> 200000]

\* ------------------------------------------------------------ helpers
clamp01(x) == IF x < 0 THEN 0 ELSE IF x > 1000 THEN 1000 ELSE x

Max(a, b) == IF a >= b THEN a ELSE b

\* canRetrigger without the elapsed-time test
canRetrigger_NoDebounce(lt, i, n) ==
  [ok |-> TRUE, lastTrig |-> [lt EXCEPT ![i] = n]]

\* canRetrigger(i), with n the value its own millis() call returns
canRetrigger(lt, i, n) ==
  IF Ge32(Sub32(n, lt[i]), RETRIGGER_MS)
  THEN [ok |-> TRUE,  lastTrig |-> [lt EXCEPT ![i] = n]]
  ELSE [ok |-> FALSE, lastTrig |-> lt]

cmin(i) == (bands[i].fmin * (100 - HYST_PCT)) \div 100

\* the upper margin taken off the band instead of added to it
cmax_Narrowed(i) == (bands[i].fmax * (100 - HYST_PCT)) \div 100

cmax(i) == (bands[i].fmax * (100 + HYST_PCT)) \div 100

\* the scan keeping the last band that matches instead of the first
RECURSIVE BandScan_Last(_, _)
BandScan_Last(f, i) ==
  IF i > Len(bands) THEN -1
  ELSE LET later == BandScan_Last(f, i + 1)
       IN  IF later >= 0 THEN later
           ELSE IF f >= cmin(i) /\ f <= cmax(i) THEN i - 1
           ELSE -1

RECURSIVE BandScan(_, _)
BandScan(f, i) ==
  IF i > Len(bands) THEN -1
  ELSE IF f >= cmin(i) /\ f <= cmax(i) THEN i - 1
  ELSE BandScan(f, i + 1)

\* bandFor(f): index into bands (0-based), -1 for no band
bandFor(f) == BandScan(f, 1)

\* if (!sdCardReady || !samplesFound[drumIdx]) return;  else the sample plays
trigger(drumIdx) == sdCardReady /\ samplesFound[drumIdx]

\* ------------------------------------------------------------ updateEmergency
IsClipping(pRms, pPeak) == pPeak >= PEAK_CLIP_LEVEL \/ pRms >= RMS_CLIP_LEVEL

\* the counter without the leak: a pass that does not clip leaves it
ClipCount_NoLeak(cb, pRms, pPeak) ==
  IF IsClipping(pRms, pPeak) THEN cb + 1 ELSE cb

ClipCount(cb, pRms, pPeak) ==
  IF IsClipping(pRms, pPeak) THEN cb + 1
  ELSE IF cb > 0 THEN cb - 1
  ELSE cb

\* the largest int of the 32-bit target
INT_MAX == 2147483647

\* clipBlocks after the counting step, with what clipBlocks++ can leave at
\* INT_MAX: signed overflow is undefined, the outcomes are the wrap to
\* INT_MIN and the counter left where it was
ClipCounts(cb, pRms, pPeak) ==
  IF IsClipping(pRms, pPeak) /\ cb = INT_MAX
  THEN {-INT_MAX - 1, INT_MAX}
  ELSE {ClipCount(cb, pRms, pPeak)}

ArmNow(em, cb) == ~em /\ cb >= CLIP_BLOCKS_ARM

\* the exit test without the hold time
ClearNow_NoHold(em, n, start, cb) == em /\ cb = 0

\* the exit test without the counter having to be back at zero
ClearNow_NoZero(em, n, start, cb) ==
  em /\ Ge32(Sub32(n, start), EMERGENCY_HOLD_MS)

ClearNow(em, n, start, cb) ==
  em /\ Ge32(Sub32(n, start), EMERGENCY_HOLD_MS) /\ cb = 0

\* updateEmergency(pRms, pPeak), with n the value its millis() call returns
updateEmergency(pRms, pPeak, n) ==
  LET cb    == ClipCount(clipBlocks, pRms, pPeak)
      arm   == ArmNow(emergency, cb)
      em1   == IF arm THEN TRUE ELSE emergency
      st1   == IF arm THEN n ELSE emergencyStart
      vol1  == IF arm THEN EMERGENCY_VOL ELSE volume
      clear == ClearNow(em1, n, st1, cb)
  IN  [clipBlocks     |-> cb,
       emergency      |-> IF clear THEN FALSE ELSE em1,
       emergencyStart |-> st1,
       volume         |-> IF clear THEN userVolume ELSE vol1,
       armed          |-> arm,
       cleared        |-> clear]

\* ------------------------------------------------------------ computeSpectralFlux
RECURSIVE PosDiffSum(_, _, _)
PosDiffSum(frame, prev, bins) ==
  IF bins = {} THEN 0
  ELSE LET i == CHOOSE b \in bins : TRUE
           d == frame[i] - prev[i]
       IN  (IF d > 0 THEN d ELSE 0) + PosDiffSum(frame, prev, bins \ {i})

\* flux / 128.0f, in 1e-5
computeSpectralFlux(frame, prev) ==
  PosDiffSum(frame, prev, ActiveBins) \div (FFT_BINS * 10)

\* ------------------------------------------------------------ envelopes, onset
Ema(alpha, env, p) == ((100 - alpha) * env + alpha * p) \div 100

\* the ratio without the guard: the division by a slowEnv of 0 gives the
\* float infinity (or NaN), held here as a ratio of 1e6
Ratio_Unguarded(fe, se) == IF se > 0 THEN (fe * 1000) \div se ELSE 1000000000

Ratio(fe, se) == IF se > ENV_EPS THEN (fe * 1000) \div se ELSE 0

\* the gap test with the operands of the subtraction exchanged
GapElapsed_Swapped(n, last) == Gt32(Sub32(last, n), ONSET_MIN_GAP_MS)

GapElapsed(n, last) == Gt32(Sub32(n, last), ONSET_MIN_GAP_MS)

\* the primary onset test without the gate on the RMS reading
OnsetDual_Ungated(haveRms, quietFrame, n, last, ratio, fe, se) ==
  /\ GapElapsed(n, last)
  /\ ratio > 1000 + RATIO_DELTA
  /\ fe - se > MIN_DELTA

OnsetDual(haveRms, quietFrame, n, last, ratio, fe, se) ==
  /\ haveRms /\ ~quietFrame /\ GapElapsed(n, last)
  /\ ratio > 1000 + RATIO_DELTA
  /\ fe - se > MIN_DELTA

\* the hum window never matching
IsHum_Never(f) == FALSE

IsHum(f) == f > HUM_LO /\ f < HUM_HI

\* the lock window never honoured
LockActive_Never(n, until, locked) == FALSE

LockActive(n, until, locked) == Neg32(Sub32(n, until)) /\ locked >= 0

\* the velocity without the remap onto the audible range
Velocity_NoFloor(ratio, flux) ==
  clamp01((65 * clamp01((ratio - 1000) * 6) + 35 * clamp01((flux * 8) \div 100))
          \div 100)

Velocity(ratio, flux) ==
  LET velFromRatio == clamp01((ratio - 1000) * 6)
      velFromFlux  == clamp01((flux * 8) \div 100)
      vel          == clamp01((65 * velFromRatio + 35 * velFromFlux) \div 100)
  IN  150 + (850 * vel) \div 1000

\* ------------------------------------------------------------ loop()
\* the quiet-frame test with the floor left out
QuietFrame_Never(pRms) == FALSE

\* quietFrame: the block's RMS is under the floor for pitch work
QuietFrame(pRms) == pRms < MIN_RMS_FOR_PITCH

\* 3) envelope update of one pass: the new fastEnv and slowEnv and their ratio
Envelopes(haveRms, pRms) ==
  LET track == haveRms /\ ~QuietFrame(pRms)
      fe    == IF track THEN Ema(FAST_ALPHA, fastEnv, pRms) ELSE fastEnv
      se    == IF track THEN Ema(SLOW_ALPHA, slowEnv, pRms) ELSE slowEnv
  IN  [quiet |-> QuietFrame(pRms), fast |-> fe, slow |-> se,
       ratio |-> Ratio(fe, se)]

\* BaselineExact with a first frame that leaves the baseline at zero
BaselineExact_Zero(init, e, v, raw) ==
  IF ~init
  THEN [ema |-> 0, var |-> 0]
  ELSE [ema |-> (100 - FLUX_ALPHA) * e + FLUX_ALPHA * raw,
        var |-> (FLUX_DECAY \div 10) * v
                + ((100 - FLUX_DECAY) \div 10) * (raw - e) * (raw - e)]

\* The baseline after a frame of flux raw, 100 times it, and the variance
\* proxy after it, 10 times it, from the baseline e and the proxy v before
\* the frame; nothing is truncated here
BaselineExact(init, e, v, raw) ==
  IF ~init
  THEN [ema |-> 100 * raw, var |-> 0]
  ELSE [ema |-> (100 - FLUX_ALPHA) * e + FLUX_ALPHA * raw,
        var |-> (FLUX_DECAY \div 10) * v
                + ((100 - FLUX_DECAY) \div 10) * (raw - e) * (raw - e)]

\* the flux baseline and variance proxy after a frame whose flux is fluxRaw
FluxBaseline(fluxRaw) ==
  LET x == BaselineExact(fluxInit, fluxEMA, fluxVarEMA, fluxRaw)
  IN  [ema |-> x.ema \div 100, var |-> x.var \div 10]

\* a/b > c/d for naturals a, c and positive b, d, without forming a product
RECURSIVE FracGt(_, _, _, _)
FracGt(a, b, c, d) ==
  IF a \div b # c \div d THEN a \div b > c \div d
  ELSE IF a % b = 0 THEN FALSE
  ELSE IF c % d = 0 THEN TRUE
  ELSE FracGt(d, c % d, b, a % b)

\* a*b > c*d for naturals
ProductGt(a, b, c, d) ==
  /\ a > 0 /\ b > 0
  /\ (c = 0 \/ d = 0 \/ FracGt(a, d, c, b))

\* fluxRaw > max(fluxEMA + FLUX_K * sqrtf(fluxVarEMA), FLUX_MIN_ABS), with
\* fluxEMA and fluxVarEMA already updated with this frame (x.ema is 100
\* times the one, x.var 10 times the other).  The comparison is made on the
\* untruncated values: with k = 100*fluxRaw - x.ema,
\*   fluxRaw > x.ema/100 + K*sqrt(x.var/10)  <=>  k > 0 /\ k*k > 1000*K*K*x.var
FluxOnset(fluxRaw, x) ==
  /\ fluxRaw > FLUX_MIN_ABS
  /\ ProductGt(100 * fluxRaw - x.ema, 100 * fluxRaw - x.ema,
               1000 * FLUX_K * FLUX_K, x.var)

Flux(haveFft, frame) ==
  IF ~haveFft
  THEN [raw |-> 0, ema |-> fluxEMA, var |-> fluxVarEMA, onset |-> FALSE]
  ELSE LET fluxRaw == computeSpectralFlux(frame, prevSpec)
           base    == FluxBaseline(fluxRaw)
       IN  [raw |-> fluxRaw, ema |-> base.ema, var |-> base.var,
            onset |-> FluxOnset(fluxRaw,
                                BaselineExact(fluxInit, fluxEMA, fluxVarEMA, fluxRaw))]

\* the combined onset insisting on the flux whether or not there is a frame
Onset_FailClosed(onsetDual, onsetFlux, haveFft) == onsetDual /\ onsetFlux

\* 5) combined onset
Onset(onsetDual, onsetFlux, haveFft) == onsetDual /\ (onsetFlux \/ ~haveFft)

\* the onset never stamped
StampOnset_Never(onset, now, last) == last

\* if (onset) lastOnsetMs = now;
StampOnset(onset, now, last) == IF onset THEN now ELSE last

\* if (onset && f > 0 && q >= YIN_CONF) if (!(f > 56.0f && f < 64.0f))
Mapped(onset, f, q) == onset /\ f > 0 /\ q >= YIN_CONF /\ ~IsHum(f)

\* the position of the band in the table taken for its voice
OwnVoice_Position(f) == bandFor(f)

\* the voice of the band bandFor(f) finds, -1 for none
OwnVoice(f) ==
  LET bandIdx == bandFor(f)
  IN  IF bandIdx >= 0 THEN bands[bandIdx + 1].idx ELSE -1

\* the lock window left alone when a voice is already locked
LockAfter_NoRefresh(ok, b, now, drum, until) ==
  IF ok THEN [drum |-> b, until |-> IF drum >= 0 THEN until ELSE Add32(now, LOCK_MS)]
        ELSE [drum |-> drum, until |-> until]

\* the lock taken on every resolved voice, granted by canRetrigger or not
LockAfter_Attempt(ok, b, now, drum, until) ==
  IF b >= 0 THEN [drum |-> b, until |-> Add32(now, LOCK_MS)]
            ELSE [drum |-> drum, until |-> until]

\* lockedDrum and lockUntilMs after the mapping step: the voice is locked
\* for LOCK_MS when canRetrigger grants it (ok), and only then
LockAfter(ok, b, now, drum, until) ==
  IF ok THEN [drum |-> b, until |-> Add32(now, LOCK_MS)]
        ELSE [drum |-> drum, until |-> until]

\* the mapping falling back on voice 0 when no band matches
Resolve_Fallback(mapped, f, now) ==
  IF ~mapped THEN -1
  ELSE IF LockActive(now, lockUntilMs, lockedDrum) THEN lockedDrum
  ELSE IF OwnVoice(f) >= 0 THEN OwnVoice(f)
  ELSE 0

\* the mapping with the drums muted while the emergency lasts
Resolve_Muted(mapped, f, now) ==
  IF ~mapped \/ emergency THEN -1
  ELSE IF LockActive(now, lockUntilMs, lockedDrum) THEN lockedDrum
  ELSE OwnVoice(f)

\* the mapping with the lock branch left out
Resolve_Unlocked(mapped, f, now) == IF ~mapped THEN -1 ELSE OwnVoice(f)

\* 6) the drum b an onset maps to, -1 for none
Resolve(mapped, f, now) ==
  IF ~mapped THEN -1
  ELSE IF LockActive(now, lockUntilMs, lockedDrum) THEN lockedDrum
  ELSE OwnVoice(f)

\* One pass of loop().  dt is the time since the previous millis() call; s1 and
\* s2 are the milliseconds that go by between updateEmergency's millis() and
\* loop's own, and between loop's and canRetrigger's.  The analyzers' readings
\* are the other parameters: rmsIn and pPeak levels, frame the FFT magnitudes,
\* fIn and qIn the YIN reading.  The throttled Serial.printf is left out.
Loop(dt, s1, s2, haveRms, rmsIn, pPeak, haveFft, frame, yinAvail, fIn, qIn) ==
  \E pRms \in {IF haveRms THEN rmsIn ELSE 0} :
  \E nE \in {Add32(millis, dt)} :
  \E em \in {updateEmergency(pRms, pPeak, nE)} :
  \E env \in {Envelopes(haveRms, pRms)} :
  \E now \in {Add32(nE, s1)} :
  \E onsetDual \in {OnsetDual(haveRms, env.quiet, now, lastOnsetMs,
                              env.ratio, env.fast, env.slow)} :
  \E fx \in {Flux(haveFft, frame)} :
  \E onset \in {Onset(onsetDual, fx.onset, haveFft)} :
  \E f \in {IF yinAvail THEN fIn ELSE -100} :
  \E q \in {IF yinAvail THEN qIn ELSE 0} :
  \E mapped \in {Mapped(onset, f, q)} :
  \E b \in {Resolve(mapped, f, now)} :
  \E nR \in {Add32(now, s2)} :
  \E cr \in {IF b >= 0 THEN canRetrigger(lastTrig, b, nR)
             ELSE [ok |-> FALSE, lastTrig |-> lastTrig]} :
  \E nowr \in {rt + dt + s1} :
    /\ millis'         = IF b >= 0 THEN nR ELSE now
    /\ clipBlocks'     = em.clipBlocks
    /\ emergency'      = em.emergency
    /\ emergencyStart' = em.emergencyStart
    /\ volume'         = em.volume
    /\ fastEnv'        = env.fast
    /\ slowEnv'        = env.slow
    /\ lastOnsetMs'    = StampOnset(onset, now, lastOnsetMs)
    /\ prevSpec'       = IF haveFft THEN frame ELSE prevSpec
    /\ fluxEMA'        = fx.ema
    /\ fluxVarEMA'     = fx.var
    /\ fluxInit'       = (fluxInit \/ haveFft)
    /\ lastTrig'       = cr.lastTrig
    /\ lockedDrum'     = LockAfter(cr.ok, b, now, lockedDrum, lockUntilMs).drum
    /\ lockUntilMs'    = LockAfter(cr.ok, b, now, lockedDrum, lockUntilMs).until
    /\ UNCHANGED << userVolume, sdCardReady, samplesFound >>
    /\ rt'             = IF b >= 0 THEN nowr + s2 ELSE nowr
    /\ onsetRt'        = IF onset THEN nowr ELSE onsetRt
    /\ fireRt'         = IF cr.ok THEN [fireRt EXCEPT ![b] = nowr + s2] ELSE fireRt
    /\ lockRt'         = IF cr.ok THEN nowr ELSE lockRt
    /\ armRt'          = IF em.armed THEN rt + dt ELSE armRt
    /\ fires'          = IF cr.ok THEN fires + 1 ELSE fires
    /\ firstFire'      = IF cr.ok /\ fires = 0
                         THEN [at |-> nowr + s2, voice |-> b] ELSE firstFire
    /\ attackRt'       = IF attackRt < 0 /\ haveRms /\ ~env.quiet
                         THEN nowr ELSE attackRt
    /\ surplus'        = (IF clipBlocks = 0 THEN 0 ELSE surplus)
                         + (IF IsClipping(pRms, pPeak) THEN 1 ELSE -1)
    /\ cycles'         = cycles + 1
    /\ out' = [pRms      |-> pRms,
               pPeak     |-> pPeak,
               haveRms   |-> haveRms,
               haveFft   |-> haveFft,
               ratio     |-> env.ratio,
               flux      |-> fx.raw,
               onsetDual |-> onsetDual,
               onsetFlux |-> fx.onset,
               onset     |-> onset,
               f         |-> IF onset THEN f ELSE -100,
               q         |-> IF onset THEN q ELSE 0,
               own       |-> IF mapped THEN OwnVoice(f) ELSE -1,
               viaLock   |-> mapped /\ LockActive(now, lockUntilMs, lockedDrum),
               b         |-> b,
               voice     |-> IF cr.ok THEN b ELSE -1,
               played    |-> cr.ok /\ trigger(b),
               vel       |-> IF cr.ok THEN Velocity(env.ratio, fx.raw) ELSE 0,
               gap       |-> IF onset /\ onsetRt >= 0 THEN nowr - onsetRt ELSE -1,
               since     |-> IF b >= 0 /\ fireRt[b] >= 0
                             THEN nowr + s2 - fireRt[b] ELSE -1,
               locked    |-> lockedDrum,
               lockAge   |-> IF onset /\ lockRt >= 0 THEN nowr - lockRt ELSE -1,
               dropAge   |-> IF onset /\ onsetRt >= 0 /\ onsetRt > lockRt
                             THEN nowr - onsetRt ELSE -1,
               armed     |-> em.armed,
               cleared   |-> em.cleared,
               emAge     |-> IF em.armed THEN 0
                             ELSE IF armRt >= 0 THEN rt + dt - armRt ELSE -1]

NoOut == [pRms |-> 0, pPeak |-> 0, haveRms |-> FALSE, haveFft |-> FALSE,
          ratio |-> 0, flux |-> 0, onsetDual |-> FALSE, onsetFlux |-> FALSE,
          onset |-> FALSE, f |-> -100, q |-> 0, own |-> -1, viaLock |-> FALSE,
          b |-> -1, voice |-> -1, played |-> FALSE, vel |-> 0, gap |-> -1,
          since |-> -1, locked |-> -1, lockAge |-> -1, dropAge |-> -1,
          armed |-> FALSE, cleared |-> FALSE,
          emAge |-> -1]

\* The globals as setup() leaves them.  sd: whether SD.begin() succeeded,
\* found: the result of the SD.exists() probes, origin: the number the
\* history clock rt gives to the first loop().
SetupAt(sd, found, origin) ==
  /\ millis = U32(BOOT_MS)
  /\ lastTrig = [v \in Voices |-> U32(0)]
  /\ fastEnv = 0 /\ slowEnv = 0
  /\ lastOnsetMs = U32(0)
  /\ prevSpec = ZeroFrame
  /\ fluxEMA = 0 /\ fluxVarEMA = 0 /\ fluxInit = FALSE
  /\ clipBlocks = 0 /\ emergency = FALSE /\ emergencyStart = U32(0)
  /\ userVolume = VOL_DEFAULT /\ volume = VOL_DEFAULT
  /\ lockedDrum = -1 /\ lockUntilMs = U32(0)
  /\ sdCardReady = sd
  /\ samplesFound = [v \in Voices |-> sd /\ v \in found]
  /\ rt = origin /\ onsetRt = -1 /\ fireRt = [v \in Voices |-> -1]
  /\ lockRt = -1 /\ armRt = -1 /\ cycles = 0
  /\ fires = 0 /\ firstFire = [at |-> -1, voice |-> -1] /\ surplus = 0
  /\ attackRt = -1
  /\ out = NoOut
  /\ probe = [fn |-> "none"]
  /\ twin = [millis |-> U32(BOOT_MS), lastTrig |-> [v \in Voices |-> U32(0)],
             fastEnv |-> 0, slowEnv |-> 0, lastOnsetMs |-> U32(0),
             prevSpec |-> ZeroFrame, fluxEMA |-> 0, fluxVarEMA |-> 0,
             fluxInit |-> FALSE, lockedDrum |-> -1, lockUntilMs |-> U32(0),
             onset |-> FALSE, voice |-> -1, vel |-> 0]

Setup(sd, found) == SetupAt(sd, found, 0)

\* SD card present, all five samples on it
Init == Setup(TRUE, Voices)

\* ------------------------------------------------------------ the twin
\* Steps 3) to 6) of loop() as a function of the detector's own state d and of
\* the readings r other than the peak: what a pass computes when neither
\* updateEmergency nor anything it writes is there to be read.
Detector(d, dt, s1, s2, r) ==
  \E pRms \in {IF r.haveRms THEN r.rms ELSE 0} :
  \E track \in {r.haveRms /\ ~QuietFrame(pRms)} :
  \E fe \in {IF track THEN Ema(FAST_ALPHA, d.fastEnv, pRms) ELSE d.fastEnv} :
  \E se \in {IF track THEN Ema(SLOW_ALPHA, d.slowEnv, pRms) ELSE d.slowEnv} :
  \E ratio \in {Ratio(fe, se)} :
  \E now \in {Add32(Add32(d.millis, dt), s1)} :
  \E onsetDual \in {OnsetDual(r.haveRms, QuietFrame(pRms), now, d.lastOnsetMs,
                              ratio, fe, se)} :
  \E raw \in {IF r.haveFft THEN computeSpectralFlux(r.frame, d.prevSpec) ELSE 0} :
  \E x \in {BaselineExact(d.fluxInit, d.fluxEMA, d.fluxVarEMA, raw)} :
  \E ema \in {IF r.haveFft THEN x.ema \div 100 ELSE d.fluxEMA} :
  \E var \in {IF r.haveFft THEN x.var \div 100 ELSE d.fluxVarEMA} :
  \E onset \in {Onset(onsetDual,
                      r.haveFft /\ FluxOnset(raw, x),
                      r.haveFft)} :
  \E f \in {IF r.yin THEN r.f ELSE -100} :
  \E q \in {IF r.yin THEN r.q ELSE 0} :
  \E b \in {IF ~Mapped(onset, f, q) THEN -1
             ELSE IF LockActive(now, d.lockUntilMs, d.lockedDrum) THEN d.lockedDrum
             ELSE OwnVoice(f)} :
  \E nR \in {Add32(now, s2)} :
  \E cr \in {IF b >= 0 THEN canRetrigger(d.lastTrig, b, nR)
             ELSE [ok |-> FALSE, lastTrig |-> d.lastTrig]} :
    twin' = [millis      |-> IF b >= 0 THEN nR ELSE now,
             lastTrig    |-> cr.lastTrig,
             fastEnv     |-> fe,
             slowEnv     |-> se,
             lastOnsetMs |-> IF onset THEN now ELSE d.lastOnsetMs,
             prevSpec    |-> IF r.haveFft THEN r.frame ELSE d.prevSpec,
             fluxEMA     |-> ema,
             fluxVarEMA  |-> var,
             fluxInit    |-> (d.fluxInit \/ r.haveFft),
             lockedDrum  |-> LockAfter(cr.ok, b, now, d.lockedDrum, d.lockUntilMs).drum,
             lockUntilMs |-> LockAfter(cr.ok, b, now, d.lockedDrum, d.lockUntilMs).until,
             onset       |-> onset,
             voice       |-> IF cr.ok THEN b ELSE -1,
             vel         |-> IF cr.ok THEN Velocity(ratio, raw) ELSE 0]

\* ------------------------------------------------------------ bounds, inputs
\* One pass of loop() on the readings r, the twin given the same readings
Pass(dt, s1, s2, r) ==
  /\ Loop(dt, s1, s2, r.haveRms, r.rms, r.peak, r.haveFft, r.frame, r.yin, r.f, r.q)
  /\ Detector(twin, dt, s1, s2, r)
  /\ UNCHANGED probe

Reading(haveRms, rms, peak, haveFft, frame, yin, f, q) ==
  [haveRms |-> haveRms, rms |-> rms, peak |-> peak, haveFft |-> haveFft,
   frame |-> frame, yin |-> yin, f |-> f, q |-> q]

\* a block whose RMS and peak are both zero; YIN still holds the last pitch
Silent == Reading(TRUE, 0, 0, FALSE, ZeroFrame, TRUE, 8200, 90)
\* a pass between two audio blocks: no RMS, no FFT, no pitch
Idle   == Reading(FALSE, 0, 30000, FALSE, ZeroFrame, FALSE, -100, 0)
\* a loud block with pitch f at confidence q, no FFT frame
Pluck(f, q) == Reading(TRUE, 50000, 70000, FALSE, ZeroFrame, TRUE, f, q)
\* a loud block with an FFT frame
PluckFft(f, frame) == Reading(TRUE, 50000, 70000, TRUE, frame, TRUE, f, 90)
\* a loud block before YIN has a pitch
PluckNoPitch == Reading(TRUE, 50000, 70000, FALSE, ZeroFrame, FALSE, -100, 0)
\* a pass whose peak reading is at full scale
Clip == Reading(FALSE, 0, 1000000, FALSE, ZeroFrame, FALSE, -100, 0)

MaxSkew    == 2
MaxElapsed == 280

Skews == 0..MaxSkew
\* between updateEmergency's clock reading and loop's: none, or the most
EdgeSkews == {0, MaxSkew}
Steps == {74, 89}

Readings ==
  { Silent, Idle, PluckNoPitch,
    Pluck(8200, 90), Pluck(11000, 90), Pluck(6000, 90), Pluck(17000, 90),
    Pluck(8200, 50),
    PluckFft(11000, LoudFrame), PluckFft(8200, ZeroFrame) }

Cycle ==
  \E dt \in Steps, r \in Readings :
    /\ rt + dt <= MaxElapsed
    /\ \E s1 \in EdgeSkews, s2 \in (IF r.yin THEN Skews ELSE {0}) :
         Pass(dt, s1, s2, r)

Next == Cycle

Spec == Init /\ [][Next]_vars

\* ------------------------------------------------------------ missing samples
\* setup() with no SD card, with a card that holds no kick sample, and with a
\* card that holds them all; then the passes of Spec.
SpecMissing ==
  /\ \E sd \in BOOLEAN, found \in {Voices, Voices \ {0}} : Setup(sd, found)
  /\ [][Next]_vars


\* ------------------------------------------------------------ clip guard
\* Passes of loop() spaced so that the emergency hold runs out within a few
\* passes: four clipping passes arm the guard, four clean ones bring the
\* counter back to zero 596..600 ms later.
MaxGuardElapsed == 1350
GuardSteps    == {149, 150}
GuardReadings == { Clip, Silent, Pluck(8200, 90) }

GuardCycle ==
  \E dt \in GuardSteps, r \in GuardReadings :
    /\ rt + dt <= MaxGuardElapsed
    /\ Pass(dt, 0, 0, r)

SpecGuard == Init /\ [][GuardCycle]_vars

\* ------------------------------------------------------------ clipping picks
\* Plucks that clip and plucks that do not, close enough for the voice lock
\* and far enough apart for the guard to come and go.
MaxClipElapsed == 750
ClipSteps    == {100, 150}
PluckPeak(f, peak) == Reading(TRUE, 50000, peak, FALSE, ZeroFrame, TRUE, f, 90)
ClipReadings ==
  { PluckPeak(8200, 70000), PluckPeak(8200, 1000000),
    PluckPeak(11000, 70000), PluckPeak(11000, 1000000) }

ClipCycle ==
  \E dt \in ClipSteps, r \in ClipReadings :
    /\ rt + dt <= MaxClipElapsed
    /\ Pass(dt, 0, 0, r)

SpecClip == Init /\ [][ClipCycle]_vars

\* ------------------------------------------------------------ bandFor on its own
\* bandFor called with frequencies from 0 to MaxProbeHz in half-hertz steps
\* and with every band's edges, in the startup state and after one or two
\* plucks have set the voice lock.
MaxProbeHz     == 400
MaxBandElapsed == 200
BandEdges ==
  UNION { { bands[k].fmin, bands[k].fmax,
            cmin(k) - 1, cmin(k), cmin(k) + 1,
            cmax(k) - 1, cmax(k), cmax(k) + 1 } : k \in 1..Len(bands) }
ProbeFreqs == { h * 100 + c : h \in 0..MaxProbeHz, c \in {0, 50} } \cup BandEdges

AllButProbe ==
  << millis, lastTrig, fastEnv, slowEnv, lastOnsetMs, prevSpec, fluxEMA,
     fluxVarEMA, fluxInit, clipBlocks, emergency, emergencyStart,
     userVolume, volume, lockedDrum, lockUntilMs, sdCardReady,
     samplesFound, rt, onsetRt, fireRt, lockRt, armRt, fires, firstFire,
     attackRt, surplus, cycles, twin, out >>

BandProbe ==
  \E f \in ProbeFreqs :
    /\ probe.fn = "none"
    /\ probe' = [fn |-> "bandFor", f |-> f, band |-> bandFor(f)]
    /\ UNCHANGED AllButProbe

BandPass ==
  \E f \in {8200, 11000} :
    /\ probe.fn = "none" /\ rt + 100 <= MaxBandElapsed
    /\ Pass(100, 0, 0, Pluck(f, 90))

BandNext == BandProbe \/ BandPass

SpecBand == Init /\ [][BandNext]_vars

\* ------------------------------------------------------------ velocity on its own
\* The COMBINED sketch blends the peak with the ratio and passes the blend to
\* trigger() as it is; its trigger() puts the floor under it.
VelocityCombined(ratio, pPeak) ==
  LET vP == clamp01((pPeak * 6) \div 1000)
      vR == clamp01((ratio - 1000) * 6)
  IN  (600 * vP + 400 * vR) \div 1000

TriggerGainCombined(vel) == 200 + (800 * clamp01(vel)) \div 1000

\* Ratios from 0 to MaxProbeRatio in steps of 0.01 and a few large ones; the
\* COMBINED sketch computes a velocity only on an onset, with the ratio over
\* 1 + RATIO_DELTA (0.05 there).
MaxProbeRatio == 2000
ProbeRatios == { r \in 0..MaxProbeRatio : r % 10 = 0 } \cup {1061, 1166, 1167, 17500, 1000000}
ProbeFluxes == {0, 468, 2343, 12499, 12500, 12501, 100000}
ProbePeaks  == {0, 1000, 70000, 166666, 166667, 1000000}

VelocityProbe ==
  \E ratio \in ProbeRatios, flux \in ProbeFluxes :
    /\ probe.fn = "none"
    /\ probe' = [fn |-> "velocity", ratio |-> ratio, flux |-> flux,
                 vel |-> Velocity(ratio, flux)]
    /\ UNCHANGED AllButProbe

VelocityCombinedProbe ==
  \E ratio \in { r \in ProbeRatios : r > 1050 }, pPeak \in ProbePeaks :
    /\ probe.fn = "none"
    /\ probe' = [fn |-> "velocityCombined", ratio |-> ratio, pPeak |-> pPeak,
                 vel |-> VelocityCombined(ratio, pPeak),
                 gain |-> TriggerGainCombined(VelocityCombined(ratio, pPeak))]
    /\ UNCHANGED AllButProbe

VelocityPass ==
  \E r \in {Pluck(8200, 90), PluckFft(11000, LoudFrame), Idle} :
    /\ probe.fn = "none" /\ rt + 100 <= MaxBandElapsed
    /\ Pass(100, 0, 0, r)

VelocityNext == VelocityProbe \/ VelocityCombinedProbe \/ VelocityPass

SpecVelocity == Init /\ [][VelocityNext]_vars

\* ------------------------------------------------------------ two picks
\* Two attacks on strings of different bands: quiet blocks, a first pluck, and
\* a second pluck whose loop() reads its clock PickGaps after the first did.
MaxLead   == 12
BlockStep == {3}
PickGaps  == {100, 149, 150}
PickPairs == { <<8200, 11000>>, <<11000, 8200>>, <<8200, 14700>> }
Quiet(f)  == Reading(TRUE, 500, 700, FALSE, ZeroFrame, TRUE, f, 90)

PickLead ==
  \E dt \in BlockStep, pr \in PickPairs :
    /\ fires = 0 /\ rt + dt <= MaxLead
    /\ Pass(dt, 0, 0, Quiet(pr[1]))

FirstPick ==
  \E dt \in BlockStep, pr \in PickPairs, s1 \in Skews, s2 \in Skews :
    /\ fires = 0 /\ attackRt < 0
    /\ Pass(dt, s1, s2, Pluck(pr[1], 90))

SecondPick ==
  \E dt \in 1..(LOCK_MS + 1), pr \in PickPairs, s1 \in Skews, s2 \in Skews :
    /\ fires = 1 /\ out.voice >= 0 /\ out.f = pr[1]
    /\ (rt + dt + s1) - onsetRt \in PickGaps
    /\ Pass(dt, s1, s2, Pluck(pr[2], 90))

PicksNext == PickLead \/ FirstPick \/ SecondPick

SpecPicks == Init /\ [][PicksNext]_vars

\* ------------------------------------------------------------ one attack
\* A single attack at the block rate: blocks under the pitch floor, one block
\* at the attack level, then blocks whose RMS never rises, each with the same
\* confident pitch.  lead is the quiet time before the attack (early: the
\* attack may come sooner), hold the time the note is held after it.
CleanScene ==
  [lead |-> 50, early |-> FALSE, levels |-> {50000}, decays |-> FALSE,
   hold |-> 200, f |-> 11000]
SustainScene ==
  [lead |-> MaxLead, early |-> TRUE, levels |-> {50000, 5000}, decays |-> TRUE,
   hold |-> 2000, f |-> 8200]

\* an FFT frame is on offer every fourth block, or never
FftDue == IF cycles = 0 THEN BOOLEAN ELSE {fluxInit /\ cycles % 4 = 0}

Tone(rms, fft, frame, f) == Reading(TRUE, rms, 70000, fft, frame, TRUE, f, 90)

\* the RMS of the block after one of RMS x: the same, or a little less
Decay(x) == x - x \div 500
Sustained(sc, x) ==
  IF ~sc.decays THEN {x}
  ELSE IF rt = attackRt THEN {x, Decay(x)}
  ELSE IF x \in sc.levels THEN {x}
  ELSE {Decay(x)}

LeadBlock(sc) ==
  \E dt \in BlockStep, fft \in FftDue :
    /\ attackRt < 0 /\ rt + dt <= sc.lead
    /\ Pass(dt, 0, 0, Tone(500, fft, ZeroFrame, sc.f))

AttackBlock(sc) ==
  \E dt \in BlockStep, fft \in FftDue, x \in sc.levels :
    /\ attackRt < 0 /\ (sc.early \/ rt + dt > sc.lead)
    /\ Pass(dt, 0, 0, Tone(x, fft, SoftFrame, sc.f))

HoldBlock(sc) ==
  \E dt \in BlockStep, fft \in FftDue, x \in Sustained(sc, out.pRms) :
    /\ attackRt >= 0 /\ rt + dt - attackRt <= sc.hold
    /\ Pass(dt, 0, 0, Tone(x, fft, SoftFrame, sc.f))

\* the scenario has run its full length
Over(sc) == attackRt >= 0 /\ \A dt \in BlockStep : rt + dt - attackRt > sc.hold

CleanNext == LeadBlock(CleanScene) \/ AttackBlock(CleanScene) \/ HoldBlock(CleanScene)

SpecClean == Init /\ [][CleanNext]_vars

SustainNext ==
  LeadBlock(SustainScene) \/ AttackBlock(SustainScene) \/ HoldBlock(SustainScene)

SpecSustain == Init /\ [][SustainNext]_vars

\* ------------------------------------------------------------ spectral frames
\* Loud blocks 12 ms apart, each with or without a new FFT frame.  Against
\* the frame before it a frame is flat, rises a little in every bin (a low
\* flux), jumps to full scale in every bin, or falls to nothing.

MaxFluxElapsed == 72
FrameStep == 12
FullScale == 1000000
FluxRise  == 10000

Level(m) == [i \in ActiveBins |-> m]

NextFrames ==
  LET m == prevSpec[3]
  IN  { Level(m),
        Level(IF m + FluxRise > FullScale THEN FullScale ELSE m + FluxRise),
        Level(FullScale),
        ZeroFrame }

FramePass ==
  /\ rt + FrameStep <= MaxFluxElapsed
  /\ \E frame \in NextFrames : Pass(FrameStep, 0, 0, PluckFft(11000, frame))

BlockPass ==
  /\ rt + FrameStep <= MaxFluxElapsed
  /\ Pass(FrameStep, 0, 0, Pluck(11000, 90))

FluxNext == FramePass \/ BlockPass

SpecFlux == Init /\ [][FluxNext]_vars

\* ------------------------------------------------------------ quiet blocks
\* Picks, blocks just under the noise floor, silent blocks and passes with
\* no RMS reading, 50 or 100 ms apart.

MaxQuietElapsed == 400
QuietSteps == {50, 100}

\* a block just under the noise floor, with an FFT frame or without
Faint    == Reading(TRUE, MIN_RMS_FOR_PITCH - 1, 2000, FALSE, ZeroFrame, TRUE, 8200, 90)
FaintFft == Reading(TRUE, MIN_RMS_FOR_PITCH - 1, 2000, TRUE, SoftFrame, TRUE, 8200, 90)
\* a pass with no RMS reading while YIN holds a pitch
NoBlock  == Reading(FALSE, 0, 30000, FALSE, ZeroFrame, TRUE, 11000, 90)

QuietReadings ==
  { Pluck(8200, 90), Pluck(11000, 90), Faint, FaintFft, NoBlock, Silent }

QuietCycle ==
  \E dt \in QuietSteps, r \in QuietReadings :
    /\ rt + dt <= MaxQuietElapsed
    /\ Pass(dt, 0, 0, r)

SpecQuiet == Init /\ [][QuietCycle]_vars

\* ------------------------------------------------------------ a long run
\* Picks and silent blocks 100 ms apart, and long stretches in which no
\* block is over the noise floor: the passes of such a stretch change nothing
\* but the clock, and the stretch is one pass that reads the clock 2^30 ms
\* after the previous reading.  The history clock starts at the least number
\* TLC has, so that it can count past 2^31 ms; the histories of real time
\* (onsetRt, fireRt, lockRt, and the ages in out) read as "none" for what
\* happened before it passes 0.

MaxWrapCycles == 6
WrapStep  == 100
LongIdle  == 1073741824
RtOrigin  == -2147483647

WrapReadings == { Pluck(8200, 90), Pluck(11000, 90), Silent }

ShortPass ==
  /\ cycles < MaxWrapCycles
  /\ \E r \in WrapReadings : Pass(WrapStep, 0, 0, r)

LongIdlePass ==
  /\ cycles < MaxWrapCycles
  /\ rt < 0
  /\ Pass(LongIdle, 0, 0, Silent)

WrapNext == ShortPass \/ LongIdlePass

SpecWrap == SetupAt(TRUE, Voices, RtOrigin) /\ [][WrapNext]_vars

\* ------------------------------------------------------------ the clip counter on its own
\* The counting step of updateEmergency applied to clipBlocks = n, the value
\* n clipping passes in a row leave, for n up to INT_MAX, next to passes of
\* loop() that clip, are silent or carry a pick.

MaxCountElapsed == 600
CountStep == 150
ProbeCounts == {0, 1, CLIP_BLOCKS_ARM - 1, CLIP_BLOCKS_ARM, INT_MAX - 1, INT_MAX}
ProbeLevels ==
  { [rms |-> 0, peak |-> 0],
    [rms |-> 0, peak |-> PEAK_CLIP_LEVEL - 1],
    [rms |-> 0, peak |-> PEAK_CLIP_LEVEL],
    [rms |-> RMS_CLIP_LEVEL - 1, peak |-> 0],
    [rms |-> RMS_CLIP_LEVEL, peak |-> 0] }

CountProbe ==
  \E cb \in ProbeCounts, l \in ProbeLevels :
  \E after \in ClipCounts(cb, l.rms, l.peak) :
    /\ probe.fn = "none"
    /\ probe' = [fn |-> "clipBlocks", cb |-> cb, rms |-> l.rms, peak |-> l.peak,
                 after |-> after]
    /\ UNCHANGED AllButProbe

CountPass ==
  \E r \in GuardReadings :
    /\ probe.fn = "none" /\ rt + CountStep <= MaxCountElapsed
    /\ Pass(CountStep, 0, 0, r)

CountNext == CountProbe \/ CountPass

SpecCount == Init /\ [][CountNext]_vars

\* ------------------------------------------------------------ FFT pitch estimators
\* The estimators of the FFT sketches, each on a spectrum whose largest
\* magnitude (whose first peak) is in a given bin.  Frequencies are in 1e-2 Hz,
\* -100 is the "no pitch" result -1.

\* src/unnamed/part_002: (44100.0f / 2.0f) * (float)bin / 1024.0f
binHz(bin) == (2205000 * bin) \div 1024

\* part_002 dominantHz(): scans bins 2..511 of the 1024-point FFT;
\* maxBin is -1 when no bin is above 0
dominantHz(maxBin) == IF maxBin < 0 THEN -100 ELSE binHz(maxBin)

\* src/grum-pedal-sketch detectPitch(): scans bins 2..127 of the 256-point
\* FFT; maxLevel in 1e-6; maxBin * 44100.0 / 256.0
detectPitchFft(maxBin, maxLevel) ==
  IF maxLevel < 10000 THEN -100 ELSE (maxBin * 4410000) \div 256

\* src/unnamed/part_004 detectPitchWithHarmonics() on a spectrum with one
\* peak, in bin peak (1..29): peaks[f] * 172.27, kept within 60..800 Hz
detectPitchWithHarmonics(peak) ==
  LET fundamental == peak * 17227
  IN  IF fundamental >= 6000 /\ fundamental <= 80000 THEN fundamental ELSE -100

\* bin * sampleRate / fftSize
BinContractHz(bin, fftSize) == (bin * (4410000 \div 4)) \div (fftSize \div 4)

DominantBins == 2..511
PitchBins    == 2..127
PeakBins     == 1..29

DominantHzProbe ==
  \E bin \in DominantBins \cup {-1} :
    /\ probe.fn = "none"
    /\ probe' = [fn |-> "dominantHz", bin |-> bin, size |-> 1024,
                 hz |-> dominantHz(bin)]
    /\ UNCHANGED AllButProbe

DetectPitchFftProbe ==
  \E bin \in PitchBins, maxLevel \in {9999, 10000, 500000} :
    /\ probe.fn = "none"
    /\ probe' = [fn |-> "detectPitchFft", bin |-> bin, size |-> 256,
                 hz |-> detectPitchFft(bin, maxLevel)]
    /\ UNCHANGED AllButProbe

HarmonicsProbe ==
  \E peak \in PeakBins :
    /\ probe.fn = "none"
    /\ probe' = [fn |-> "detectPitchWithHarmonics", bin |-> peak, size |-> 256,
                 hz |-> detectPitchWithHarmonics(peak)]
    /\ UNCHANGED AllButProbe

FftNext == DominantHzProbe \/ DetectPitchFftProbe \/ HarmonicsProbe

SpecFft == Init /\ [][FftNext]_vars

\* ------------------------------------------------------------ YIN detectPitch
\* GuitarTrigger::detectPitch of "src/YIN Algo with Attack Detection/
\* trigger-yin.cpp", from the difference function its step 1 leaves in
\* yinBuffer.  The model keeps MaxYinLags lags where the source keeps
\* YIN_BUFFER_SIZE = 512, draws each difference from DiffValues, and holds
\* the normalised difference in 1e-4, the lag in 1e-3 sample and the
\* frequency in 1e-2 Hz.

MaxYinLags == 6
DiffValues == {0, 1, 2, 9}
SAMPLE_RATE == 44100
\* float threshold = 0.15
YinThreshold == 1500
\* the float NaN that 0 * (tau / 0) gives
NaN == -1

YinDiffs == [1..(MaxYinLags - 1) -> DiffValues]

RECURSIVE RunningSum(_, _)
RunningSum(d, tau) == IF tau = 0 THEN 0 ELSE RunningSum(d, tau - 1) + d[tau]

\* step 2: yinBuffer[0] = 1; yinBuffer[tau] *= tau / runningSum
Cmnd(d) ==
  [tau \in 0..(MaxYinLags - 1) |->
     IF tau = 0 THEN 10000
     ELSE IF RunningSum(d, tau) = 0
          THEN NaN
          ELSE (d[tau] * tau * 10000) \div RunningSum(d, tau)]

\* a < b on floats: false when either is NaN
YinLt(a, b) == a # NaN /\ b # NaN /\ a < b

\* while (i + 1 < YIN_BUFFER_SIZE && yinBuffer[i + 1] < yinBuffer[i]) i++;
RECURSIVE YinWalk(_, _)
YinWalk(y, i) ==
  IF i + 1 < MaxYinLags /\ YinLt(y[i + 1], y[i]) THEN YinWalk(y, i + 1) ELSE i

\* step 3: the lag chosen by the scan from lag i on, -1 for none
RECURSIVE YinScan(_, _)
YinScan(y, i) ==
  IF i >= MaxYinLags THEN -1
  ELSE IF YinLt(y[i], YinThreshold) THEN YinWalk(y, i)
  ELSE YinScan(y, i + 1)

\* the test of step 4 without the rejection of the last lag
YinNoPitch_KeepLast(tau) == tau = -1

\* if (tau == -1 || tau == YIN_BUFFER_SIZE - 1) return -1;
YinNoPitch(tau) == tau = -1 \/ tau = MaxYinLags - 1

\* the interpolation with the sign of the correction exchanged
BetterTau_Plus(y, tau) ==
  IF tau > 0 /\ tau < MaxYinLags - 1
  THEN LET a2 == y[tau + 1] - 2 * y[tau] + y[tau - 1]
           b2 == y[tau + 1] - y[tau - 1]
       IN  IF y[tau - 1] = NaN \/ y[tau] = NaN \/ y[tau + 1] = NaN THEN NaN
           ELSE IF a2 # 0 THEN tau * 1000 + (b2 * 1000) \div a2
           ELSE tau * 1000
  ELSE tau * 1000

\* step 4: betterTau = tau - b / (2 * a) with a = (x2 - 2 x1 + x0) / 2 and
\* b = (x2 - x0) / 2, in 1e-3 sample; NaN when one of the three points is
BetterTau(y, tau) ==
  IF tau > 0 /\ tau < MaxYinLags - 1
  THEN LET a2 == y[tau + 1] - 2 * y[tau] + y[tau - 1]
           b2 == y[tau + 1] - y[tau - 1]
       IN  IF y[tau - 1] = NaN \/ y[tau] = NaN \/ y[tau + 1] = NaN THEN NaN
           ELSE IF a2 # 0 THEN tau * 1000 - (b2 * 1000) \div (2 * a2)
           ELSE tau * 1000
  ELSE tau * 1000

\* SAMPLE_RATE / betterTau for a lag in 1e-3 sample, in 1e-2 Hz
YinHz(lag) ==
  ((SAMPLE_RATE * 1000) \div lag) * 100
    + (((SAMPLE_RATE * 1000) % lag) * 100) \div lag

\* detectPitch from step 2 on: the lag chosen, the interpolated lag, and the
\* value returned (pitch: FALSE for the sentinel -1; finite: FALSE when the
\* division gives an infinity or a NaN)
detectPitch(d) ==
  LET y   == Cmnd(d)
      tau == YinScan(y, 2)
      lag == BetterTau(y, tau)
  IN  IF YinNoPitch(tau)
      THEN [tau |-> tau, lag |-> 0, pitch |-> FALSE, finite |-> TRUE, hz |-> -100]
      ELSE IF lag = NaN \/ lag = 0
      THEN [tau |-> tau, lag |-> lag, pitch |-> TRUE, finite |-> FALSE, hz |-> 0]
      ELSE IF lag < 0
      THEN [tau |-> tau, lag |-> lag, pitch |-> TRUE, finite |-> TRUE,
            hz |-> -YinHz(-lag)]
      ELSE [tau |-> tau, lag |-> lag, pitch |-> TRUE, finite |-> TRUE,
            hz |-> YinHz(lag)]

YinProbe ==
  \E d \in YinDiffs :
    /\ probe.fn = "none"
    /\ probe' = [fn |-> "detectPitch", d |-> d, y |-> Cmnd(d), r |-> detectPitch(d)]
    /\ UNCHANGED AllButProbe

YinNext == YinProbe

SpecYin == Init /\ [][YinNext]_vars

\* ------------------------------------------------------------ clipping that stops
\* Passes of loop() 150 ms apart for as long as the sketch runs.  A pass may
\* clip during the first MaxLiveClipTime ms; after that none does, and the
\* run is followed until the emergency is over and the counter is back at 0,
\* which takes less than MaxLiveElapsed ms.

MaxLiveClipTime == 1050
MaxLiveElapsed  == 2400
LiveStep == 150

ClipLive ==
  /\ rt + LiveStep <= MaxLiveClipTime
  /\ Pass(LiveStep, 0, 0, Clip)

CleanLive ==
  /\ \/ rt + LiveStep <= MaxLiveClipTime
     \/ (emergency \/ clipBlocks > 0) /\ rt + LiveStep <= MaxLiveElapsed
  /\ \E r \in {Silent, Pluck(8200, 90)} : Pass(LiveStep, 0, 0, r)

LiveNext == ClipLive \/ CleanLive

\* loop() is called again and again: a pass is made whenever one can be
SpecLive == Init /\ [][LiveNext]_vars /\ WF_vars(LiveNext)

\* ------------------------------------------------------------ getFrequencyBand
\* getFrequencyBand of src/unnamed/part_005, one step per turn of its loop,
\* with the calls it makes to itself kept on a stack.  lastFrequency is the
\* frequency of the previous trigger (0 at startup); nothing writes it while
\* the call runs.  Frequencies in 1e-2 Hz.

frequencyBands == <<
  [minFreq |->  5000, maxFreq |->  9500],
  [minFreq |->  9600, maxFreq |-> 14000],
  [minFreq |-> 14100, maxFreq |-> 22000],
  [minFreq |-> 22100, maxFreq |-> 35000],
  [minFreq |-> 35100, maxFreq |-> 80000] >>

\* frames the stack has room for
MaxStackDepth == 4

GfbFreqs == {1000, 4000, 4800, 8200, 8300, 9900, 11000, 14800, 30000, 36000, 90000}
GfbLast  == {0, 8200, 30000}

\* no call of this frame's turn has returned yet
NoSub == -2

Frame(freq) == [freq |-> freq, i |-> 0, sub |-> NoSub]

\* abs(freq - lastFrequency) < 20
NearLast(freq, last) ==
  (IF freq - last > 0 THEN freq - last ELSE last - freq) < 2000

\* minF and maxF of band i (0-based), expanded when biased
GfbMin(i, biased) ==
  LET minF == (frequencyBands[i + 1].minFreq * 95) \div 100
  IN  IF biased THEN (minF * 90) \div 100 ELSE minF
GfbMax(i, biased) ==
  LET maxF == (frequencyBands[i + 1].maxFreq * 105) \div 100
  IN  IF biased THEN (maxF * 110) \div 100 ELSE maxF

\* the call on top of the stack returns v
GfbReturn(p, v) ==
  LET n == Len(p.stack)
  IN  IF n = 1
      THEN [p EXCEPT !.stack = << >>, !.status = "done", !.result = v]
      ELSE [p EXCEPT !.stack = [k \in 1..(n - 1) |->
                                  IF k = n - 1 THEN [p.stack[k] EXCEPT !.sub = v]
                                  ELSE p.stack[k]]]

\* one step of the call on top of the stack
GfbAdvance(p) ==
  LET n   == Len(p.stack)
      top == p.stack[n]
  IN  IF top.i = 5 THEN GfbReturn(p, -1)
      ELSE IF top.sub = NoSub /\ NearLast(top.freq, p.last)
      THEN \* i == getFrequencyBand(lastFrequency): the call is made
           IF n >= MaxStackDepth
           THEN [p EXCEPT !.status = "stack exhausted"]
           ELSE [p EXCEPT !.stack = Append(p.stack, Frame(p.last))]
      ELSE LET biased == top.sub # NoSub /\ top.i = top.sub
           IN  IF top.freq >= GfbMin(top.i, biased) /\ top.freq <= GfbMax(top.i, biased)
               THEN GfbReturn(p, top.i)
               ELSE [p EXCEPT !.stack[n] = [freq |-> top.freq, i |-> top.i + 1,
                                            sub |-> NoSub]]

GfbCall ==
  \E freq \in GfbFreqs, last \in GfbLast :
    /\ probe.fn = "none"
    /\ probe' = [fn |-> "getFrequencyBand", freq |-> freq, last |-> last,
                 stack |-> << Frame(freq) >>, status |-> "running", result |-> -1]
    /\ UNCHANGED AllButProbe

GfbStep ==
  /\ probe.fn = "getFrequencyBand" /\ probe.status = "running"
  /\ probe' = GfbAdvance(probe)
  /\ UNCHANGED AllButProbe

GfbNext == GfbCall \/ GfbStep

SpecBandCall == Init /\ [][GfbNext]_vars

\* ------------------------------------------------------------ the true-bypass sketch
\* src/unnamed/part_001: a footswitch toggles between the dry guitar and the
\* drums.  The sketch's globals are the fields of one record s, kept in probe:
\* bypassMode, lastToggleTime, millis, the two mainMixer gains (1e-2), the
\* LED, lastTriggerTime[5], nextPlayer, which of the six players is playing,
\* and the frequency history.  Frequencies in 1e-2 Hz, probability in 1e-2,
\* peak level in 1e-3.

toggleDebounceTime == 50
retriggerDelay     == 80
FREQ_HISTORY_SIZE  == 3
Players == 0..5

updateBypassState(s) ==
  IF s.bypassMode
  THEN [s EXCEPT !.guitar = 100, !.drums = 0,  !.led = FALSE]
  ELSE [s EXCEPT !.guitar = 0,   !.drums = 90, !.led = TRUE]

\* the footswitch toggling on every press, with no second debounce
checkFootswitch_NoDebounce(s, fell, now) ==
  IF fell
  THEN updateBypassState([s EXCEPT !.lastToggleTime = now,
                                   !.bypassMode = ~s.bypassMode])
  ELSE s

\* fell: footswitch.fell() after update(); now: what millis() returns
checkFootswitch(s, fell, now) ==
  IF fell /\ Gt32(Sub32(now, s.lastToggleTime), toggleDebounceTime)
  THEN updateBypassState([s EXCEPT !.lastToggleTime = now,
                                   !.bypassMode = ~s.bypassMode])
  ELSE s

\* playSample always taking the slot at nextPlayer
playSample_Steal(s, fileOk) ==
  IF s.bypassMode
  THEN [s EXCEPT !.call = [made |-> TRUE, started |-> {}, stopped |-> {},
                           ret |-> FALSE]]
  ELSE [s EXCEPT !.playing[s.nextPlayer] = fileOk,
                 !.nextPlayer = (s.nextPlayer + 1) % 6,
                 !.call = [made |-> TRUE, started |-> {s.nextPlayer},
                           stopped |-> IF s.playing[s.nextPlayer]
                                       THEN {s.nextPlayer} ELSE {},
                           ret |-> fileOk]]

\* playSample(fname); fileOk: whether play(fname) can open the file.  call
\* records the players play() and stop() were called on, and the result.
playSample(s, fileOk) ==
  LET free == {i \in 0..5 : ~s.playing[(s.nextPlayer + i) % 6]}
  IN  IF s.bypassMode
      THEN [s EXCEPT !.call = [made |-> TRUE, started |-> {}, stopped |-> {},
                               ret |-> FALSE]]
      ELSE IF free # {}
      THEN LET i   == CHOOSE i \in free : \A j \in free : i <= j
               idx == (s.nextPlayer + i) % 6
           IN  [s EXCEPT !.playing[idx] = fileOk,
                         !.nextPlayer = (idx + 1) % 6,
                         !.call = [made |-> TRUE, started |-> {idx},
                                   stopped |-> {}, ret |-> TRUE]]
      ELSE [s EXCEPT !.playing[s.nextPlayer] = fileOk,
                     !.nextPlayer = (s.nextPlayer + 1) % 6,
                     !.call = [made |-> TRUE, started |-> {s.nextPlayer},
                               stopped |-> {s.nextPlayer}, ret |-> fileOk]]

\* getSmoothedFrequency with the filled flag never set
getSmoothedFrequency_Unfilled(s, newFreq) ==
  LET hist  == [s.freqHistory EXCEPT ![s.freqHistoryIndex] = newFreq]
      index == (s.freqHistoryIndex + 1) % FREQ_HISTORY_SIZE
      count == index
  IN  [s EXCEPT !.freqHistory = hist, !.freqHistoryIndex = index,
                !.early = (count = 0),
                !.smoothed = IF count = 0 THEN newFreq
                             ELSE (IF count >= 1 THEN hist[0] ELSE 0)
                                  + (IF count >= 2 THEN hist[1] ELSE 0),
                !.count = IF count = 0 THEN 1 ELSE count]

\* getSmoothedFrequency(newFreq): the value returned is smoothed / count,
\* smoothed the sum the loop adds up and count what it is divided by (newFreq
\* over 1 when the count == 0 return is taken, which early records)
getSmoothedFrequency(s, newFreq) ==
  LET hist   == [s.freqHistory EXCEPT ![s.freqHistoryIndex] = newFreq]
      index  == (s.freqHistoryIndex + 1) % FREQ_HISTORY_SIZE
      filled == s.freqHistoryFilled \/ index = 0
      count  == IF filled THEN FREQ_HISTORY_SIZE ELSE index
  IN  [s EXCEPT !.freqHistory = hist, !.freqHistoryIndex = index,
                !.freqHistoryFilled = filled,
                !.early = (count = 0),
                !.smoothed = IF count = 0 THEN newFreq
                             ELSE (IF count >= 1 THEN hist[0] ELSE 0)
                                  + (IF count >= 2 THEN hist[1] ELSE 0)
                                  + (IF count >= 3 THEN hist[2] ELSE 0),
                !.count = IF count = 0 THEN 1 ELSE count]

\* the drum triggerDrumForFrequency picks for sum / count, -1 for none
triggerDrumForFrequency(sum, count) ==
  IF sum >= 6000 * count  /\ sum < 11000 * count THEN 0
  ELSE IF sum >= 11000 * count /\ sum < 16500 * count THEN 1
  ELSE IF sum >= 16500 * count /\ sum < 26000 * count THEN 2
  ELSE IF sum >= 26000 * count /\ sum < 40000 * count THEN 3
  ELSE IF sum >= 40000 * count THEN 4
  ELSE -1

\* canRetrigger(drumIndex) of this sketch
canRetriggerAfter(s, drumIndex, now) ==
  Gt32(Sub32(now, s.lastTriggerTime[drumIndex]), retriggerDelay)

\* The globals as setup() leaves them; boot is what millis() returns then.
setup(boot) ==
  [fn |-> "part_001", bypassMode |-> TRUE, lastToggleTime |-> U32(0),
   millis |-> boot, guitar |-> 100, drums |-> 0, led |-> FALSE,
   lastTriggerTime |-> [v \in Voices |-> U32(0)],
   nextPlayer |-> 0, playing |-> [i \in Players |-> FALSE],
   freqHistory |-> [i \in 0..(FREQ_HISTORY_SIZE - 1) |-> 0],
   freqHistoryIndex |-> 0, freqHistoryFilled |-> FALSE,
   \* history
   rt |-> 0,                \* real milliseconds since setup()
   toggleRt |-> -1,         \* real time of the latest toggle
   toggleGap |-> -1,        \* real time between the latest two toggles
   toggled |-> FALSE,       \* the latest pass toggled
   pressed |-> FALSE,       \* the latest pass saw a press
   call |-> [made |-> FALSE, started |-> {}, stopped |-> {}, ret |-> FALSE],
   smoothed |-> -1, count |-> 1, early |-> FALSE,
   recent |-> << >>,        \* the latest arguments of getSmoothedFrequency
   calls |-> 0]             \* its calls since startup, counted up to 4

\* One pass of loop().  dt: time since the previous pass; fell: the debounced
\* footswitch went down; avail: notefreq and peak both have a reading; over:
\* every player that was playing has reached the end of its file.
loop(s, dt, fell, avail, freq, probability, level, fileOk, over) ==
  LET now == Add32(s.millis, dt)
      s0  == [s EXCEPT !.millis = now, !.rt = s.rt + dt,
                       !.playing = IF over THEN [i \in Players |-> FALSE]
                                   ELSE s.playing,
                       !.call = [made |-> FALSE, started |-> {}, stopped |-> {},
                                 ret |-> FALSE],
                       !.smoothed = -1, !.count = 1, !.early = FALSE]
      s1  == checkFootswitch(s0, fell, now)
      tg  == s1.bypassMode # s.bypassMode
      s2  == [s1 EXCEPT !.toggled = tg, !.pressed = fell,
                        !.toggleRt = IF tg THEN s0.rt ELSE s.toggleRt,
                        !.toggleGap = IF tg /\ s.toggleRt >= 0
                                      THEN s0.rt - s.toggleRt ELSE s.toggleGap]
  IN  IF s2.bypassMode \/ ~avail \/ ~(probability > 60 /\ level > 20) THEN s2
      ELSE LET s3 == [getSmoothedFrequency(s2, freq) EXCEPT
                        !.recent = IF Len(s2.recent) < FREQ_HISTORY_SIZE
                                   THEN Append(s2.recent, freq)
                                   ELSE Append(Tail(s2.recent), freq),
                        !.calls = IF s2.calls < 4 THEN s2.calls + 1 ELSE 4]
               d  == triggerDrumForFrequency(s3.smoothed, s3.count)
           IN  IF d >= 0 /\ canRetriggerAfter(s3, d, now)
               THEN playSample([s3 EXCEPT !.lastTriggerTime[d] = now], fileOk)
               ELSE s3

MaxSketchElapsed == 160
SketchSteps == {20, 40}
\* 0.7 s after power-up, and 49.7 days later with the switch never pressed
SketchBoots == {U32(700), << W16 - 1, W16 - 60 >>}
\* a pass with no reading, a weak one, and notes on two drums
SketchReadings ==
  { [avail |-> FALSE, f |-> 0, q |-> 0, level |-> 0],
    [avail |-> TRUE, f |-> 8200, q |-> 50, level |-> 300],
    [avail |-> TRUE, f |-> 8200, q |-> 90, level |-> 300],
    [avail |-> TRUE, f |-> 12100, q |-> 90, level |-> 300] }

SketchBoot ==
  \E boot \in SketchBoots :
    /\ probe.fn = "none"
    /\ probe' = setup(boot)
    /\ UNCHANGED AllButProbe

\* every sample is on the card
SketchPass ==
  \E dt \in SketchSteps, fell \in BOOLEAN, r \in SketchReadings, over \in BOOLEAN :
    /\ probe.fn = "part_001" /\ probe.rt + dt <= MaxSketchElapsed
    /\ probe' = loop(probe, dt, fell, r.avail, r.f, r.q, r.level, TRUE, over)
    /\ UNCHANGED AllButProbe

SpecBypass == Init /\ [][SketchBoot \/ SketchPass]_vars

\* ------------------------------------------------------------ the six players
\* playSample of src/grum_pedal-BEST-WAV-ADD, which has no bypass mode, called
\* as its loop() calls it, between players reaching the end of their files.
\* PlayCall keeps in probe the state before the call (was).

PlayCall ==
  \E fileOk \in BOOLEAN :
    /\ probe.fn \in {"none", "playSample"}
    /\ \E s \in {IF probe.fn = "none"
                 THEN [fn |-> "playSample", bypassMode |-> FALSE, nextPlayer |-> 0,
                       playing |-> [i \in Players |-> FALSE],
                       call |-> [made |-> FALSE, started |-> {}, stopped |-> {},
                                 ret |-> FALSE],
                       was |-> [nextPlayer |-> 0, playing |-> {}]]
                 ELSE probe} :
         probe' = [playSample(s, fileOk) EXCEPT
                     !.was = [nextPlayer |-> s.nextPlayer,
                              playing |-> {i \in Players : s.playing[i]}]]
    /\ UNCHANGED AllButProbe

\* player i reaches the end of its file
PlayerEnds ==
  \E i \in Players :
    /\ probe.fn = "playSample" /\ probe.playing[i]
    /\ probe' = [probe EXCEPT !.playing[i] = FALSE, !.call.made = FALSE]
    /\ UNCHANGED AllButProbe

SpecPlayers == Init /\ [][PlayCall \/ PlayerEnds]_vars

\* ------------------------------------------------------------ GuitarTrigger::process
\* The circular buffer of trigger-yin.cpp, filled 128 samples at a call.
\* bufferIndex stays a multiple of 128, so the 2048 positions are sixteen
\* blocks, each written whole by one call: audioBuffer[b] names the call that
\* wrote positions 128*b .. 128*b+127 (0: none yet) and whether its samples
\* were loud.  detectPluck reads blocks 14 and 15, detectPitch blocks 0 to 7.

BUFFER_SIZE     == 2048
MaxProcessCalls == 17

\* the copy loop of process(inputBuffer, 128)
process(s, loud) ==
  [s EXCEPT !.audioBuffer[s.bufferIndex \div 128] = [n |-> s.calls + 1, loud |-> loud],
            !.bufferIndex = (s.bufferIndex + 128) % BUFFER_SIZE,
            !.calls = s.calls + 1]

ProcessCall ==
  \E loud \in BOOLEAN :
    /\ probe.fn \in {"none", "process"}
    /\ \E s \in {IF probe.fn = "none"
                 THEN [fn |-> "process", bufferIndex |-> 0, calls |-> 0,
                       audioBuffer |-> [b \in 0..15 |-> [n |-> 0, loud |-> FALSE]]]
                 ELSE probe} :
         /\ s.calls < MaxProcessCalls
         /\ probe' = process(s, loud)
    /\ UNCHANGED AllButProbe

SpecProcess == Init /\ [][ProcessCall]_vars

\* ------------------------------------------------------------ fadeMixerGain
\* fadeMixerGain of src/grum_pedal-BEST_GPT5, one turn of its while loop at a
\* step, gains in 1e-2.  loop() calls it with the targets 0.0 and 1.0 on
\* channels that stand at 1.0 or 0.0; FadeCall also tries every other pair
\* of gains in [0, 1].  The float drift of twenty additions is a millionth
\* of the tolerance, except when the distance is the tolerance itself: then
\* the comparison can go either way.

MaxFadeSteps == 24

fadeStep_Reversed(start, target) == IF target > start THEN -5 ELSE 5

\* float step = (targetGain > current) ? 0.05 : -0.05;
fadeStep(start, target) == IF target > start THEN 5 ELSE -5

\* one evaluation of the loop test and what follows it; go: the test
\* fabs(current - targetGain) > 0.01 came out true
fadeMixerGain(s, go) ==
  IF go
  THEN [s EXCEPT !.current = s.current + fadeStep(s.start, s.target),
                 !.gain = clamp01(10 * (s.current + fadeStep(s.start, s.target))) \div 10,
                 !.steps = s.steps + 1]
  ELSE [s EXCEPT !.gain = s.target, !.status = "done"]

FadeCall ==
  /\ probe.fn = "none"
  /\ \E start \in 0..100, target \in 0..100 :
      probe' = [fn |-> "fadeMixerGain", start |-> start, target |-> target,
                current |-> start, gain |-> start, steps |-> 0,
                status |-> "running"]
  /\ UNCHANGED AllButProbe

FadeTurn ==
  /\ probe.fn = "fadeMixerGain" /\ probe.status = "running"
  /\ probe.steps < MaxFadeSteps
  /\ \E d \in {IF probe.current > probe.target THEN probe.current - probe.target
               ELSE probe.target - probe.current} :
     \E go \in (IF d = 1 THEN BOOLEAN ELSE {d > 1}) :
       probe' = fadeMixerGain(probe, go)
  /\ UNCHANGED AllButProbe

SpecFade == Init /\ [][FadeCall \/ FadeTurn]_vars

\* ------------------------------------------------------------ claims
\* C1  Onset gap: an accepted onset (lastOnsetMs set to now) comes at least
\* ONSET_MIN_GAP_MS of real time after the previous accepted onset.
OnsetGapInvariant ==
  (out.onset /\ out.gap >= 0) => out.gap >= ONSET_MIN_GAP_MS

\* a second onset accepted as early as the gap test lets it through
OnsetGapWitness == out.onset /\ out.gap = ONSET_MIN_GAP_MS + 1

\* C2  Per-voice debounce: when canRetrigger grants voice i, at least
\* RETRIGGER_MS of real time have passed since it last granted voice i.
VoiceDebounceInvariant ==
  (out.voice >= 0 /\ out.since >= 0) => out.since >= RETRIGGER_MS

\* a voice fired again exactly RETRIGGER_MS after its last fire
VoiceDebounceWitness == out.voice >= 0 /\ out.since = RETRIGGER_MS

\* an accepted onset inside the lock window of voice V, with a valid, non-hum
\* pitch of another voice's band
OnsetInLock ==
  /\ out.onset /\ out.own >= 0 /\ out.locked >= 0 /\ out.own # out.locked
  /\ out.lockAge > 0 /\ out.lockAge < LOCK_MS

\* an accepted onset with a resolvable pitch once the lock window is over
OnsetAfterLock ==
  out.onset /\ out.own >= 0 /\ out.locked >= 0 /\ out.lockAge >= LOCK_MS

HumRejected ==
  [][ (out'.onset /\ out'.f > HUM_LO /\ out'.f < HUM_HI) =>
        /\ out'.voice = -1
        /\ lastTrig' = lastTrig
        /\ lockedDrum' = lockedDrum
        /\ lockUntilMs' = lockUntilMs ]_vars

\* a confident 60 Hz reading on an accepted onset while a voice lock is active
HumRejectedWitness ==
  /\ out.onset /\ out.f > HUM_LO /\ out.f < HUM_HI /\ out.q >= YIN_CONF
  /\ out.locked >= 0 /\ out.lockAge > 0 /\ out.lockAge < LOCK_MS

\* a pass of loop() that read zero RMS and zero peak
SilentPass == out.haveRms /\ out.pRms = 0 /\ out.pPeak = 0

\* C8 as claimed: a silent pass fires nothing and changes neither lockedDrum
\* nor the emergency flag.
SilenceIdempotentClaimed ==
  [][ SilentPass' =>
        /\ out'.voice = -1
        /\ lockedDrum' = lockedDrum
        /\ emergency' = emergency ]_vars

\* C8 as amended: a silent pass fires nothing, leaves lockedDrum alone and
\* never sets the emergency flag; it clears the flag when it finds clipBlocks
\* back at zero with the hold time over.
SilenceIdempotent ==
  [][ SilentPass' =>
        /\ out'.voice = -1
        /\ lockedDrum' = lockedDrum
        /\ emergency' => emergency
        /\ (emergency /\ ~emergency') =>
             (clipBlocks' = 0 /\ out'.emAge >= EMERGENCY_HOLD_MS) ]_vars

\* a silent pass, with a confident pitch on offer and a voice locked earlier,
\* that ended the emergency
SilenceIdempotentWitness ==
  SilentPass /\ out.cleared /\ ~emergency /\ lockedDrum >= 0

\* C9  Emergency hysteresis: the guard is entered only by a call that leaves
\* clipBlocks at CLIP_BLOCKS_ARM, after at least that many more clipping than
\* clean passes since the counter was last zero, and the flag is set in every
\* pass less than EMERGENCY_HOLD_MS after the entry.
EmergencyHysteresis ==
  /\ out.armed =>
       (emergency /\ clipBlocks = CLIP_BLOCKS_ARM /\ surplus >= CLIP_BLOCKS_ARM)
  /\ (out.emAge >= 0 /\ out.emAge < EMERGENCY_HOLD_MS) => emergency

\* the counter back at zero one millisecond before the hold runs out
EmergencyHysteresisWitness ==
  emergency /\ clipBlocks = 0 /\ out.emAge = EMERGENCY_HOLD_MS - 1

\* C10  Emergency gain: the commanded volume is EMERGENCY_VOL while the flag
\* is set and userVolume while it is clear; the flag is cleared only by a
\* call that finds clipBlocks at zero and the hold time over; emergencyStart
\* changes only when the flag goes from clear to set.
EmergencyGain ==
  /\ [](volume = IF emergency THEN EMERGENCY_VOL ELSE userVolume)
  /\ [][ /\ (emergency /\ ~emergency') =>
              (clipBlocks' = 0 /\ out'.emAge >= EMERGENCY_HOLD_MS)
         /\ emergencyStart' # emergencyStart => (~emergency /\ emergency')
     ]_vars

\* the guard left exactly when the hold time is over, the volume restored
EmergencyGainWitness ==
  /\ out.cleared /\ ~emergency /\ volume = userVolume
  /\ out.emAge = EMERGENCY_HOLD_MS

\* the second of two picks, accepted as an onset
SecondPickAccepted ==
  out.onset /\ out.gap >= 0 /\ out.own >= 0 /\ out.own # firstFire.voice

\* C4 as claimed: two picks 100 ms apart on strings of different bands give
\* exactly two triggers, on two distinct voices.
RapidPicksClaimed ==
  (SecondPickAccepted /\ out.gap = 100) =>
    (fires = 2 /\ out.voice >= 0 /\ out.voice # firstFire.voice)

\* C4 as amended: the two picks give exactly two triggers; a second pick less
\* than LOCK_MS after the first (100 ms is) fires the first pick's voice
\* again, and only from LOCK_MS on does it fire the voice of its own band.
RapidPicks ==
  SecondPickAccepted =>
    /\ fires = 2
    /\ out.voice = (IF out.gap < LOCK_MS THEN firstFire.voice ELSE out.own)

\* the second pick, 100 ms after the first, firing the first pick's voice
RapidPicksWitness ==
  /\ SecondPickAccepted /\ out.gap = 100
  /\ fires = 2 /\ out.voice = firstFire.voice

\* C5 as claimed: one attack and two seconds of a held, never rising note
\* give exactly one trigger.
SustainedOneTrigger ==
  /\ fires <= 1
  /\ Over(SustainScene) => fires = 1

\* C6 as claimed: 50 ms under the floor, then RMS 0.05 held for 200 ms at a
\* steady 110 Hz, give exactly one trigger, on voice 1, no later than
\* ONSET_MIN_GAP_MS after the jump.
CleanAttackOneTrigger ==
  /\ fires <= 1
  /\ fires = 1 =>
       (firstFire.voice = 1 /\ firstFire.at - attackRt <= ONSET_MIN_GAP_MS)
  /\ (attackRt >= 0 /\ rt - attackRt > ONSET_MIN_GAP_MS) => fires = 1

\* the detector part of the pedal's state and of its latest pass
DetectorState ==
  [millis      |-> millis,
   lastTrig    |-> lastTrig,
   fastEnv     |-> fastEnv,
   slowEnv     |-> slowEnv,
   lastOnsetMs |-> lastOnsetMs,
   prevSpec    |-> prevSpec,
   fluxEMA     |-> fluxEMA,
   fluxVarEMA  |-> fluxVarEMA,
   fluxInit    |-> fluxInit,
   lockedDrum  |-> lockedDrum,
   lockUntilMs |-> lockUntilMs,
   onset       |-> out.onset,
   voice       |-> out.voice,
   vel         |-> out.vel]

BandHysteresis ==
  probe.fn = "bandFor" =>
    \A k \in 1..Len(bands) :
      /\ probe.f = bands[k].fmax => probe.band = k - 1
      /\ probe.f * 100 > bands[k].fmax * (100 + HYST_PCT) => probe.band # k - 1
      /\ probe.f * 100 < bands[k].fmin * (100 - HYST_PCT) => probe.band # k - 1

\* bandFor asked for the upper edge of the fifth band
BandHysteresisWitness ==
  probe.fn = "bandFor" /\ probe.f = bands[5].fmax /\ probe.band = 4

\* the table indices (from 1) whose widened range contains f
Widened(f) ==
  { k \in 1..Len(bands) :
      /\ f * 100 >= bands[k].fmin * (100 - HYST_PCT)
      /\ f * 100 <= bands[k].fmax * (100 + HYST_PCT) }

\* C13  First match wins: bandFor(f) is the smallest table index whose
\* widened range contains f, -1 when there is none, whatever state the pedal
\* is in; in the margins two bands share it is the lower band.
FirstMatchWins ==
  probe.fn = "bandFor" =>
    probe.band = (IF Widened(probe.f) = {} THEN -1
                  ELSE (CHOOSE k \in Widened(probe.f) :
                          \A j \in Widened(probe.f) : k <= j) - 1)

\* 96 Hz, in the margin the first two bands share, resolved to the first band
\* while the lock holds the second band's voice
FirstMatchWinsWitness ==
  /\ probe.fn = "bandFor" /\ probe.f = 9600 /\ probe.band = 0
  /\ Cardinality(Widened(probe.f)) = 2 /\ lockedDrum = 1

\* C14 as claimed: the velocity loop() passes to trigger() lies in
\* [0.15, 1.0], in each of the sketches.
VelocityBoundsClaimed ==
  /\ probe.fn \in {"velocity", "velocityCombined"} =>
       (probe.vel >= 150 /\ probe.vel <= 1000)
  /\ out.voice >= 0 => (out.vel >= 150 /\ out.vel <= 1000)

\* C14 as amended: the velocity this sketch's loop() passes to trigger() lies
\* in [0.15, 1.0]; the COMBINED sketch's loop() passes a blend that lies in
\* [0, 1.0] and can be under 0.15, and its trigger() lifts it into [0.2, 1.0].
VelocityBounds ==
  /\ probe.fn = "velocity" => (probe.vel >= 150 /\ probe.vel <= 1000)
  /\ out.voice >= 0 => (out.vel >= 150 /\ out.vel <= 1000)
  /\ probe.fn = "velocityCombined" =>
       /\ probe.vel >= 0 /\ probe.vel <= 1000
       /\ probe.gain >= 200 /\ probe.gain <= 1000

\* the COMBINED sketch on a faint onset: a blend under 0.15 handed to trigger()
VelocityBoundsWitness ==
  /\ probe.fn = "velocityCombined" /\ probe.ratio = 1060 /\ probe.pPeak = 1000
  /\ probe.vel < 150 /\ probe.gain >= 200

\* an accepted onset whose pitch is missing, not confident, or mains hum
DroppedOnset ==
  /\ out.onset
  /\ out.f <= 0 \/ out.q < YIN_CONF \/ (out.f > HUM_LO /\ out.f < HUM_HI)

FluxFailsOpen ==
  /\ [](/\ ~out.haveFft => (out.onset <=> out.onsetDual)
        /\ out.haveFft => (out.onset <=> (out.onsetDual /\ out.onsetFlux))
        /\ out.onsetDual =>
             /\ out.haveRms /\ out.pRms >= MIN_RMS_FOR_PITCH
             /\ out.ratio > 1000 + RATIO_DELTA)
  /\ [][ out'.onset <=> lastOnsetMs' # lastOnsetMs ]_vars

\* an onset accepted on the envelopes alone, no FFT frame being there
FluxFailsOpenWitness == ~out.haveFft /\ out.onsetDual /\ out.onset

\* C17  Flux-onset rule: there are frame sequences after which the flux
\* onset is signalled.  A steady low flux (baseline and spread at most a
\* tenth of FLUX_MIN_ABS) followed by a frame whose flux is at least four
\* times FLUX_MIN_ABS signals the flux onset, and a primary onset on that
\* frame is accepted.
SteadyLowFlux ==
  /\ fluxInit
  /\ fluxEMA <= FLUX_MIN_ABS \div 10
  /\ fluxVarEMA <= (FLUX_MIN_ABS \div 10) * (FLUX_MIN_ABS \div 10)

FluxJump == out.haveFft /\ out.flux >= 4 * FLUX_MIN_ABS

FluxJumpSignalled ==
  [][ SteadyLowFlux /\ FluxJump' /\ out'.onsetDual
        => out'.onsetFlux /\ out'.onset ]_vars

\* what the sketch does instead: no frame signals the flux onset, and no
\* onset is accepted on a pass that has an FFT frame
NoFluxOnset == ~out.onsetFlux /\ ~(out.haveFft /\ out.onset)

\* C18  First spectral frame makes no onset decision: on the first FFT
\* frame after startup, whatever its flux, the baseline becomes that flux,
\* the variance proxy is 0 and the flux onset is not signalled.
FirstFrameNoDecision ==
  [][ ~fluxInit /\ out'.haveFft
        => /\ fluxInit'
           /\ fluxEMA' = out'.flux
           /\ fluxVarEMA' = 0
           /\ ~out'.onsetFlux ]_vars

FirstFrameNoDecisionWitness ==
  /\ rt = FrameStep /\ out.haveFft /\ out.flux > FLUX_MIN_ABS
  /\ fluxInit /\ fluxEMA = out.flux /\ fluxVarEMA = 0 /\ ~out.onsetFlux

\* C19  Quiet or missing readings freeze the detector state: a pass with no
\* RMS reading, or with an RMS below MIN_RMS_FOR_PITCH, leaves fastEnv,
\* slowEnv, lastOnsetMs, the retrigger table, lockedDrum and lockUntilMs as
\* they were and produces no trigger.
QuietPass == ~out.haveRms \/ out.pRms < MIN_RMS_FOR_PITCH

QuietFreezes ==
  [][ cycles' # cycles /\ QuietPass'
        => /\ fastEnv' = fastEnv /\ slowEnv' = slowEnv
           /\ lastOnsetMs' = lastOnsetMs
           /\ lastTrig' = lastTrig
           /\ lockedDrum' = lockedDrum /\ lockUntilMs' = lockUntilMs
           /\ ~out'.onset /\ out'.voice = -1 /\ ~out'.played
           /\ fires' = fires ]_vars

QuietFreezesWitness ==
  /\ out.haveRms /\ out.pRms > 0 /\ out.pRms < MIN_RMS_FOR_PITCH
  /\ fastEnv - slowEnv > MIN_DELTA
  /\ Ratio(fastEnv, slowEnv) > 1000 + RATIO_DELTA
  /\ onsetRt >= 0 /\ rt - onsetRt > ONSET_MIN_GAP_MS
  /\ lockedDrum >= 0 /\ ~out.onset

\* C20  The voice lock changes only on a fire: a pass that fires no trigger
\* (no onset, no valid pitch, hum, no band, or the voice refused by
\* canRetrigger) leaves lockedDrum and lockUntilMs as they were.
LockOnlyOnFire ==
  [][ cycles' # cycles /\ out'.voice = -1
        => lockedDrum' = lockedDrum /\ lockUntilMs' = lockUntilMs ]_vars

\* a voice resolved through a running lock and refused by canRetrigger
LockOnlyOnFireWitness ==
  /\ out.onset /\ out.b >= 0 /\ out.voice = -1
  /\ out.viaLock /\ out.lockAge >= 0 /\ out.lockAge < LOCK_MS

\* C21  Lock refresh on fire: lockedDrum is -1 while no trigger has fired
\* since startup; afterwards it is the voice of the most recent fire, and
\* lockUntilMs is the time loop() read on the pass of that fire plus LOCK_MS,
\* modulo 2^32.
LastFired == CHOOSE v \in Voices : \A w \in Voices : fireRt[w] <= fireRt[v]

LockRefreshOnFire ==
  /\ fires = 0 => lockedDrum = -1 /\ lockRt < 0
  /\ fires > 0 =>
       /\ lockRt >= 0
       /\ lockedDrum = LastFired
       /\ lockUntilMs = Add32(U32(BOOT_MS + lockRt), LOCK_MS)

\* the lock moved to a second voice
LockRefreshOnFireWitness ==
  /\ fires >= 2 /\ lockedDrum # firstFire.voice
  /\ out.voice = lockedDrum /\ ~out.viaLock

\* C22  The lock expires naturally and stays expired: once the clock has
\* reached lockUntilMs, the lock test is false on every later pass until
\* another trigger fires, however much time passes on the wrapping clock.
\* Step by step: a lock that has expired at one reading of the clock has
\* expired at the next, unless the pass in between fired.
LockStaysExpired ==
  [][ /\ lockedDrum >= 0
      /\ ~LockActive(millis, lockUntilMs, lockedDrum)
      /\ out'.voice = -1
      => ~LockActive(millis', lockUntilMs', lockedDrum') ]_vars

\* what follows: a pick long after the lock expired is given the voice of
\* the stale lock instead of the voice of its own band
StaleLockUsed ==
  /\ fires = 2 /\ firstFire.at < -1 /\ rt > 0
  /\ out.viaLock /\ out.voice >= 0 /\ out.own >= 0 /\ out.voice # out.own

\* C23  Dead zone: an onset with a valid pitch that lies in no widened band,
\* on a pass where no lock is active, produces no trigger and leaves the
\* retrigger table and the voice lock as they were.
DeadZone(f) == \A i \in 1..Len(bands) : f < cmin(i) \/ f > cmax(i)

DeadZoneSilent ==
  [][ /\ cycles' # cycles
      /\ out'.onset /\ out'.f > 0 /\ out'.q >= YIN_CONF
      /\ DeadZone(out'.f) /\ ~out'.viaLock
      => /\ out'.b = -1 /\ out'.voice = -1 /\ ~out'.played
         /\ lastTrig' = lastTrig
         /\ lockedDrum' = lockedDrum /\ lockUntilMs' = lockUntilMs ]_vars

\* a pick between two bands, after an earlier lock ran out
DeadZoneSilentWitness ==
  /\ out.onset /\ out.f = 17000 /\ out.q >= YIN_CONF /\ DeadZone(out.f)
  /\ ~out.viaLock /\ out.voice = -1 /\ lockedDrum >= 0

\* C24  Clip counter is a leaky integrator floored at 0: each call of
\* updateEmergency changes clipBlocks by exactly +1 when the peak or the RMS
\* is at its clip level, by -1 when neither is and clipBlocks > 0, and by 0
\* otherwise; clipBlocks is never negative and stays within the range of
\* int under any number of clipping passes in a row.
CountStepOk(cb, pRms, pPeak, after) ==
  /\ after >= 0
  /\ IF pPeak >= PEAK_CLIP_LEVEL \/ pRms >= RMS_CLIP_LEVEL
        THEN after > cb /\ after - cb = 1
      ELSE IF cb > 0 THEN after = cb - 1
      ELSE after = cb

ClipCounterLeaky ==
  /\ clipBlocks >= 0
  /\ probe.fn = "clipBlocks"
       => CountStepOk(probe.cb, probe.rms, probe.peak, probe.after)

\* the same of the passes of loop(), whose counter stays far from INT_MAX
ClipCounterSteps ==
  [][ cycles' # cycles
        => CountStepOk(clipBlocks, out'.pRms, out'.pPeak, clipBlocks') ]_vars

\* C25  Frequency-domain numeric contract: every FFT-based pitch estimator
\* reports the chosen bin as bin * sampleRate / fftSize Hz (44100/256 per bin
\* for the 256-point FFT, 44100/1024 per bin for the 1024-point FFT), up to
\* 0.01 Hz per bin for a rounded constant.
FftEstimators == {"dominantHz", "detectPitchFft", "detectPitchWithHarmonics"}

FftBinContract ==
  probe.fn \in FftEstimators /\ probe.hz >= 0
    => /\ probe.hz - BinContractHz(probe.bin, probe.size) <= probe.bin
       /\ BinContractHz(probe.bin, probe.size) - probe.hz <= probe.bin

\* the estimators on the 256-point FFT keep the contract
FftBinContract256 ==
  probe.fn \in FftEstimators /\ probe.size = 256 => FftBinContract

\* C26  YIN boundary lags are rejected: detectPitch derives a frequency only
\* from a lag in 2..YIN_BUFFER_SIZE-2, and returns the sentinel -1 whenever
\* no lag in 2..YIN_BUFFER_SIZE-1 has a normalised difference under the
\* threshold, or the lag selected is the last one.
YinBelow(i) == probe.y[i] # NaN /\ probe.y[i] < YinThreshold

YinBoundaryRejected ==
  probe.fn = "detectPitch" =>
    /\ probe.r.pitch => probe.r.tau \in 2..(MaxYinLags - 2) /\ YinBelow(probe.r.tau)
    /\ (\A i \in 2..(MaxYinLags - 1) : ~YinBelow(i)) => ~probe.r.pitch /\ probe.r.hz = -100
    /\ probe.r.tau = MaxYinLags - 1 => ~probe.r.pitch /\ probe.r.hz = -100

\* a difference function that is under the threshold, and still falling, at
\* the last lag
YinBoundaryRejectedWitness ==
  /\ probe.fn = "detectPitch" /\ probe.r.tau = MaxYinLags - 1
  /\ YinBelow(MaxYinLags - 1) /\ ~probe.r.pitch

\* C30  YIN interpolation stays next to the chosen lag: when detectPitch
\* selects a lag tau and interpolates, the interpolated lag is within 0.5
\* sample of tau, hence positive, and the frequency returned,
\* SAMPLE_RATE / lag, is positive and finite.
YinInterpolationNear ==
  probe.fn = "detectPitch" /\ probe.r.pitch =>
    /\ probe.r.lag # NaN /\ probe.r.finite
    /\ probe.r.lag - probe.r.tau * 1000 <= 500
    /\ probe.r.tau * 1000 - probe.r.lag <= 500
    /\ probe.r.lag > 0
    /\ probe.r.hz > 0

\* a lag moved by the interpolation, to the later side and to the earlier
YinInterpolationNearWitness ==
  /\ probe.fn = "detectPitch" /\ probe.r.pitch
  /\ probe.r.lag < probe.r.tau * 1000
  /\ probe.r.tau * 1000 - probe.r.lag > 250

\* C27  Envelope ratio guard: the ratio the onset test uses is 0 whenever
\* slowEnv is not above the epsilon (1e-6), and then no primary onset is
\* accepted on that pass; otherwise it is fastEnv / slowEnv.
RatioGuard ==
  cycles > 0 =>
    /\ slowEnv <= ENV_EPS => out.ratio = 0 /\ ~out.onsetDual /\ ~out.onset
    /\ slowEnv > ENV_EPS => out.ratio = (fastEnv * 1000) \div slowEnv

\* a block under the noise floor before any attack: slowEnv is still 0
RatioGuardWitness ==
  /\ cycles > 0 /\ slowEnv <= ENV_EPS
  /\ out.haveRms /\ out.pRms > 0 /\ out.ratio = 0

GetFrequencyBandTerminates ==
  probe.fn = "getFrequencyBand" =>
    /\ \A j, k \in 1..Len(probe.stack) :
         j # k => probe.stack[j].freq # probe.stack[k].freq
    /\ probe.status # "stack exhausted"
    /\ probe.status = "done" => probe.result \in -1..4

\* the calls that make no call to themselves do return
GetFrequencyBandFar ==
  (probe.fn = "getFrequencyBand" /\ ~NearLast(probe.freq, probe.last))
    => Len(probe.stack) <= 1 /\ probe.status # "stack exhausted"

\* C31  A trigger that cannot play changes no trigger state: when an onset
\* resolves to a voice b whose sample is unavailable (no SD card, or
\* samplesFound[b] false), the pass starts no sample and leaves lastTrig[b],
\* lockedDrum and lockUntilMs as they were.
UnplayableKeepsState ==
  [][(out'.b >= 0 /\ ~trigger(out'.b)) =>
       /\ ~out'.played
       /\ lastTrig'[out'.b] = lastTrig[out'.b]
       /\ lockedDrum' = lockedDrum
       /\ lockUntilMs' = lockUntilMs]_vars

\* C32  Voice indices stay in range: lockedDrum is always in -1..4, and the
\* index b handed to canRetrigger and trigger, whether it comes from the lock
\* or from bands[bandFor(f)].idx, is in 0..4, the index set of lastTrig.
VoiceInRange ==
  /\ DOMAIN lastTrig = 0..4
  /\ lockedDrum \in -1..4
  /\ out.b \in -1..4
  /\ \A k \in 1..Len(bands) : bands[k].idx \in DOMAIN lastTrig
  /\ probe.fn = "bandFor" =>
       /\ OwnVoice(probe.f) \in -1..4
       /\ probe.band >= 0 => OwnVoice(probe.f) \in DOMAIN lastTrig

VoiceInRangeWitness ==
  /\ lockedDrum = 1 /\ out.b = 1
  /\ probe.fn = "bandFor" /\ probe.band = 5 /\ OwnVoice(probe.f) = 4

\* C33  Bypass routing: after setup and after any presses of the footswitch,
\* bypassMode means dry guitar at gain 1.0, drum bus at 0.0 and the LED off,
\* and active mode means guitar 0.0, drum bus 0.9 and the LED on; no pass of
\* loop() made in bypass mode starts a sample; and two toggles of the mode
\* are never less than toggleDebounceTime (50 ms) apart.
BypassRouting ==
  probe.fn = "part_001" =>
    /\ probe.bypassMode =>
         probe.guitar = 100 /\ probe.drums = 0 /\ ~probe.led
    /\ ~probe.bypassMode =>
         probe.guitar = 0 /\ probe.drums = 90 /\ probe.led
    /\ probe.bypassMode => probe.call.started = {} /\ ~probe.call.ret
    /\ probe.toggleGap >= 0 => probe.toggleGap >= 50

\* back in bypass with a drum still sounding, the latest press refused
BypassRoutingWitness ==
  /\ probe.fn = "part_001" /\ probe.bypassMode
  /\ probe.toggleGap >= 50
  /\ probe.pressed /\ ~probe.toggled
  /\ \E i \in Players : probe.playing[i]

\* C34  Round-robin player allocation: playSample starts the requested file
\* on exactly one of the six players; it stops a playing player only when
\* all six are playing, and then the one at index nextPlayer; nextPlayer
\* stays in 0..5 and becomes the used index plus one modulo 6.
RoundRobin ==
  (probe.fn = "playSample" /\ probe.call.made) =>
    /\ Cardinality(probe.call.started) = 1
    /\ probe.nextPlayer \in 0..5
    /\ \A idx \in probe.call.started :
         /\ probe.nextPlayer = (idx + 1) % 6
         /\ idx \in probe.was.playing => probe.call.stopped = {idx}
    /\ probe.call.stopped # {} =>
         /\ probe.was.playing = Players
         /\ probe.call.stopped = {probe.was.nextPlayer}
    /\ probe.was.playing # Players =>
         /\ probe.call.stopped = {}
         /\ probe.call.started \cap probe.was.playing = {}

\* a call with every player busy
RoundRobinWitness ==
  /\ probe.fn = "playSample" /\ probe.call.made
  /\ probe.was.playing = Players /\ probe.was.nextPlayer = 3
  /\ probe.call.stopped = {3} /\ probe.call.started = {3}
  /\ probe.nextPlayer = 4

\* C35  Frequency smoothing is a moving average of the last three readings:
\* after k >= 1 calls of getSmoothedFrequency since startup, the value
\* returned is the arithmetic mean of the most recent min(k, 3) arguments,
\* and the count == 0 return is never taken.
SmoothingIsMean ==
  (probe.fn = "part_001" /\ probe.smoothed >= 0) =>
    LET n == Len(probe.recent)
    IN  /\ probe.calls >= 1
        /\ n = (IF probe.calls < 3 THEN probe.calls ELSE 3)
        /\ probe.count = n
        /\ probe.smoothed = probe.recent[1]
                            + (IF n >= 2 THEN probe.recent[2] ELSE 0)
                            + (IF n >= 3 THEN probe.recent[3] ELSE 0)
        /\ ~probe.early

\* a fourth call, the oldest of four different readings overwritten
SmoothingIsMeanWitness ==
  /\ probe.fn = "part_001" /\ probe.smoothed >= 0 /\ probe.calls = 4
  /\ probe.recent = << 8200, 12100, 12100 >>
  /\ probe.freqHistory[0] = 12100 /\ probe.freqHistory[1] = 8200

\* C36  Pluck detection looks at the newest samples: after every call of
\* process with a 128-sample block, the window detectPluck reads (positions
\* BUFFER_SIZE-256 .. BUFFER_SIZE-1) and the window detectPitch reads
\* (positions 0 .. 1022) hold the most recently received samples in arrival
\* order: the last block of each window was written by the latest call, the
\* one before it by the call before, and so on back to the first call.
WindowsNewest ==
  probe.fn = "process" =>
    /\ \A b \in 14..15 :
         probe.audioBuffer[b].n =
           (IF probe.calls > 15 - b THEN probe.calls - (15 - b) ELSE 0)
    /\ \A b \in 0..7 :
         probe.audioBuffer[b].n =
           (IF probe.calls > 7 - b THEN probe.calls - (7 - b) ELSE 0)

\* the window of detectPluck is the newest when bufferIndex is back at 0,
\* and then only
PluckWindowAtWrap ==
  probe.fn = "process" =>
    ((probe.audioBuffer[15].n = probe.calls /\ probe.audioBuffer[14].n = probe.calls - 1)
       <=> probe.bufferIndex = 0)

====
